---- MODULE Spec2Model ----
(***************************************************************************)
(* A model of uwasi: the WASI driver (src/index.ts, kept in                *)
(* src/src/features/random.ts lines 37-142), the in-memory file system and *)
(* its provider useMemoryFS (src/features/fd.ts, kept in                   *)
(* src/src/features/all.ts lines 186-1173).                                *)
(*                                                                         *)
(* Strings are sequences of tokens: the separator "/" or a path segment.   *)
(* Every string the model builds keeps two segments apart by a "/".        *)
(***************************************************************************)
EXTENDS Integers, Sequences, FiniteSets, TLC

(***************************************************************************)
(* Bounds of the model                                                     *)
(***************************************************************************)
\* the number of import calls the guest makes on the memory-FS provider
MaxSteps == 3
\* the largest descriptor number path_open may allocate
MaxFd == 5
\* the longest file content the guest may produce by writing
MaxLen == 3
\* the largest number of nodes ever allocated in the file tree heap
MaxNodes == 9
\* the number of start()/initialize() calls the host makes on one driver
MaxCalls == 3
\* the number of import calls the guest makes in the file-content specification
MaxIoSteps == 4
MaxStdioSteps == 3
\* the number of import calls the guest makes while an entry point runs
MaxGuestCalls == 2
\* the longest feature list handed to the driver
MaxFeatures == 2
\* the number of import calls the guest makes in the tree specification
MaxTreeSteps == 3
\* the number of steps on the guest memory, and of memory.grow calls among them
MaxMemSteps == 3
MaxGrows == 1
\* the size of the guest memory at instantiation and of a page added by a grow
InitialBytes == 16
PageBytes == 4

(***************************************************************************)
(* ABI constants                                                           *)
(***************************************************************************)
WASI_ESUCCESS == 0
WASI_ERRNO_BADF == 8
WASI_ERRNO_EXIST == 20
WASI_ERRNO_INVAL == 28
WASI_ERRNO_ISDIR == 31
WASI_ERRNO_NOENT == 44
WASI_ENOSYS == 52
WASI_ERRNO_NOTDIR == 54
WASI_OFLAGS_CREAT == 1
WASI_OFLAGS_DIRECTORY == 2
WASI_OFLAGS_EXCL == 4
WASI_OFLAGS_TRUNC == 8

WASI_CLOCK_REALTIME == 0
WASI_CLOCK_MONOTONIC == 1
WASI_FILETYPE_CHARACTER_DEVICE == 2
WASI_FILETYPE_DIRECTORY == 3
WASI_FILETYPE_REGULAR_FILE == 4

IMPORT_FUNCTIONS ==
    { "args_get", "args_sizes_get", "clock_res_get", "clock_time_get",
      "environ_get", "environ_sizes_get",
      "fd_advise", "fd_allocate", "fd_close", "fd_datasync", "fd_fdstat_get",
      "fd_fdstat_set_flags", "fd_fdstat_set_rights", "fd_filestat_get",
      "fd_filestat_set_size", "fd_filestat_set_times", "fd_pread",
      "fd_prestat_dir_name", "fd_prestat_get", "fd_pwrite", "fd_read",
      "fd_readdir", "fd_renumber", "fd_seek", "fd_sync", "fd_tell", "fd_write",
      "path_create_directory", "path_filestat_get", "path_filestat_set_times",
      "path_link", "path_open", "path_readlink", "path_remove_directory",
      "path_rename", "path_symlink", "path_unlink_file",
      "poll_oneoff", "proc_exit", "proc_raise", "random_get", "sched_yield",
      "sock_accept", "sock_recv", "sock_send", "sock_shutdown" }

(***************************************************************************)
(* Strings and paths                                                       *)
(***************************************************************************)
Min(a, b) == IF a < b THEN a ELSE b
Max(a, b) == IF a > b THEN a ELSE b

NotSep(t) == t # "/"

\* path.split("/").filter((p) => p.length > 0)
Segments(path) == SelectSeq(path, NotSep)

\* parts.join("/")
RECURSIVE Join(_)
Join(parts) ==
    IF parts = <<>> THEN <<>>
    ELSE IF Len(parts) = 1 THEN parts
    ELSE <<Head(parts), "/">> \o Join(Tail(parts))

\* path.endsWith("/")
EndsWithSep(path) == path # <<>> /\ path[Len(path)] = "/"

\* (dirEntry.path.endsWith("/") ? dirEntry.path : dirEntry.path + "/") + path
JoinDir(dirPath, path) ==
    (IF EndsWithSep(dirPath) THEN dirPath ELSE dirPath \o <<"/">>) \o path

DropLast(s) == IF s = <<>> THEN s ELSE SubSeq(s, 1, Len(s) - 1)

RECURSIVE NormalizeParts(_, _)
NormalizeParts(parts, normalizedParts) ==
    IF parts = <<>> THEN normalizedParts
    ELSE LET part == Head(parts) IN
         IF part = "." THEN NormalizeParts(Tail(parts), normalizedParts)
         ELSE IF part = ".."
              THEN NormalizeParts(Tail(parts), DropLast(normalizedParts))
              ELSE NormalizeParts(Tail(parts), Append(normalizedParts, part))

normalizePath(path) ==
    IF path = <<>> THEN <<"/">>
    ELSE LET normalizedParts == NormalizeParts(Segments(path), <<>>) IN
         IF normalizedParts = <<>> THEN <<"/">>
         ELSE <<"/">> \o Join(normalizedParts)

(***************************************************************************)
(* The file tree: a heap of nodes, a node's identity is its index.         *)
(* 0 stands for null / undefined.                                          *)
(***************************************************************************)
NoEntries == [n \in {} |-> 0]

DirNode == [type |-> "dir", entries |-> NoEntries, content |-> <<>>,
            kind |-> "", entry |-> ""]
FileNode(content) == [type |-> "file", entries |-> NoEntries,
                      content |-> content, kind |-> "", entry |-> ""]
DevNullNode == [type |-> "character", entries |-> NoEntries, content |-> <<>>,
                kind |-> "devnull", entry |-> ""]
StdioNode(entry) == [type |-> "character", entries |-> NoEntries,
                     content |-> <<>>, kind |-> "stdio", entry |-> entry]

\* dir.entries[name] = node
PutEntry(entries, name, id) ==
    [n \in DOMAIN entries \cup {name} |-> IF n = name THEN id ELSE entries[n]]

\* delete dir.entries[name]
DelEntry(entries, name) == [n \in DOMAIN entries \ {name} |-> entries[n]]

\* current.entries[part], undefined when the key is missing
Child(nodes, current, part) ==
    IF part \in DOMAIN nodes[current].entries
    THEN nodes[current].entries[part] ELSE 0

RECURSIVE EnsureDirWalk(_, _, _)
EnsureDirWalk(nodes, current, parts) ==
    IF parts = <<>> THEN [nodes |-> nodes, thrown |-> FALSE, node |-> current]
    ELSE LET part == Head(parts)
             n1 == IF Child(nodes, current, part) = 0
                   THEN Append([nodes EXCEPT ![current].entries =
                                    PutEntry(@, part, Len(nodes) + 1)], DirNode)
                   ELSE nodes
             next == Child(n1, current, part)
         IN IF n1[next].type # "dir"
            THEN [nodes |-> n1, thrown |-> TRUE, node |-> 0]
            ELSE EnsureDirWalk(n1, next, Tail(parts))

\* MemoryFileSystem.ensureDir: fs is [nodes, root, preopenPaths]
ensureDir(fs, path) ==
    LET r == EnsureDirWalk(fs.nodes, fs.root, Segments(normalizePath(path)))
    IN [fs |-> [fs EXCEPT !.nodes = r.nodes], thrown |-> r.thrown, node |-> r.node]

\* MemoryFileSystem.setNode
setNode(fs, path, node) ==
    LET parts == Segments(normalizePath(path)) IN
    IF parts = <<>>
    THEN IF node.type # "dir"
         THEN [fs |-> fs, thrown |-> TRUE, node |-> 0]
         ELSE [fs |-> [fs EXCEPT !.nodes = Append(@, node),
                                 !.root = Len(fs.nodes) + 1],
               thrown |-> FALSE, node |-> Len(fs.nodes) + 1]
    ELSE LET fileName == parts[Len(parts)]
             dirPath == <<"/">> \o Join(DropLast(parts))
             d == ensureDir(fs, dirPath)
             id == Len(d.fs.nodes) + 1
         IN IF d.thrown THEN [fs |-> d.fs, thrown |-> TRUE, node |-> 0]
            ELSE [fs |-> [d.fs EXCEPT !.nodes =
                            Append([@ EXCEPT ![d.node].entries =
                                        PutEntry(@, fileName, id)], node)],
                  thrown |-> FALSE, node |-> id]

\* MemoryFileSystem.createFile, reached from addFile
createFile(fs, path, content) == setNode(fs, path, FileNode(content))

RECURSIVE LookupWalk(_, _, _)
LookupWalk(nodes, current, parts) ==
    IF parts = <<>> THEN current
    ELSE IF nodes[current].type # "dir" THEN 0
    ELSE LET next == Child(nodes, current, Head(parts)) IN
         IF next = 0 THEN 0 ELSE LookupWalk(nodes, next, Tail(parts))

\* MemoryFileSystem.lookup
lookup(fs, path) ==
    LET normalizedPath == normalizePath(path) IN
    IF normalizedPath = <<"/">> THEN fs.root
    ELSE LookupWalk(fs.nodes, fs.root, Segments(normalizedPath))

RECURSIVE ResolveWalk(_, _, _, _)
ResolveWalk(nodes, root, current, parts) ==
    IF parts = <<>> THEN current
    ELSE LET part == Head(parts) IN
         IF part = "." THEN ResolveWalk(nodes, root, current, Tail(parts))
         ELSE IF part = ".." THEN ResolveWalk(nodes, root, root, Tail(parts))
         ELSE IF nodes[current].type # "dir" THEN 0
         ELSE LET next == Child(nodes, current, part) IN
              IF next = 0 THEN 0 ELSE ResolveWalk(nodes, root, next, Tail(parts))

\* MemoryFileSystem.resolve
resolve(fs, dir, relativePath) ==
    ResolveWalk(fs.nodes, fs.root, dir, Segments(normalizePath(relativePath)))

\* MemoryFileSystem.createFileIn
createFileIn(fs, dir, relativePath) ==
    LET parts == Segments(normalizePath(relativePath)) IN
    IF parts = <<>> THEN [fs |-> fs, thrown |-> TRUE, node |-> 0]
    ELSE LET fileName == parts[Len(parts)]
             d == EnsureDirWalk(fs.nodes, dir, DropLast(parts))
             id == Len(d.nodes) + 1
         IN IF d.thrown
            THEN [fs |-> [fs EXCEPT !.nodes = d.nodes], thrown |-> TRUE, node |-> 0]
            ELSE [fs |-> [fs EXCEPT !.nodes =
                            Append([d.nodes EXCEPT ![d.node].entries =
                                        PutEntry(@, fileName, id)], FileNode(<<>>))],
                  thrown |-> FALSE, node |-> id]

\* the loop of removeEntry: "stop" is its early return, "throw" the TypeError
\* of reading .type of undefined
RECURSIVE RemoveWalk(_, _, _)
RemoveWalk(nodes, parentDir, parts) ==
    IF Len(parts) <= 1 THEN [how |-> "found", node |-> parentDir]
    ELSE IF parentDir = 0 THEN [how |-> "throw", node |-> 0]
    ELSE IF nodes[parentDir].type # "dir" THEN [how |-> "stop", node |-> 0]
    ELSE RemoveWalk(nodes, Child(nodes, parentDir, Head(parts)), Tail(parts))

\* variant: removeEntry that leaves the entry in its parent directory
removeEntry_keepsEntry(fs, path) == [fs |-> fs, thrown |-> FALSE]

\* MemoryFileSystem.removeEntry
removeEntry(fs, path) ==
    LET parts == Segments(normalizePath(path))
        w == RemoveWalk(fs.nodes, fs.root, parts)
    IN IF w.how = "stop" THEN [fs |-> fs, thrown |-> FALSE]
       ELSE IF w.how = "throw" \/ w.node = 0 THEN [fs |-> fs, thrown |-> TRUE]
       ELSE IF fs.nodes[w.node].type # "dir" THEN [fs |-> fs, thrown |-> TRUE]
       ELSE IF parts = <<>> THEN [fs |-> fs, thrown |-> FALSE]
       ELSE [fs |-> [fs EXCEPT !.nodes[w.node].entries =
                         DelEntry(@, parts[Len(parts)])],
             thrown |-> FALSE]

(***************************************************************************)
(* Host set-up: new MemoryFileSystem(preopens), addFile, useMemoryFS       *)
(***************************************************************************)
\* the preopens option: given is FALSE when the option is absent (undefined),
\* keys are Object.keys(preopens) in insertion order
RECURSIVE RegisterPreopens(_, _)
RegisterPreopens(fs, keys) ==
    IF keys = <<>> THEN fs
    ELSE LET guestPath == Head(keys)
             d == ensureDir(fs, guestPath)
         IN RegisterPreopens(
                [d.fs EXCEPT !.preopenPaths = Append(@, guestPath)], Tail(keys))

\* MemoryFileSystem.constructor
MemoryFileSystem(preopens) ==
    LET fs0 == [nodes |-> <<DirNode>>, root |-> 1, preopenPaths |-> <<>>]
        fs1 == ensureDir(fs0, <<"/", "dev">>).fs
        fs2 == setNode(fs1, <<"/", "dev", "/", "null">>, DevNullNode).fs
    IN IF preopens.given
       THEN RegisterPreopens(fs2, preopens.keys)
       ELSE [fs2 EXCEPT !.preopenPaths = Append(@, <<"/">>)]

\* MemoryFileSystem.addFile with string or Uint8Array content, one call per
\* element of adds
RECURSIVE addFile(_, _)
addFile(fs, adds) ==
    IF adds = <<>> THEN fs
    ELSE addFile(createFile(fs, Head(adds).path, Head(adds).content).fs, Tail(adds))

StdioProxies == <<"stdin", "stdout", "stderr">>

FdToken(fd) == CASE fd = 0 -> "0" [] fd = 1 -> "1" [] OTHER -> "2"

\* bindStdio(...).forEach((entry, fd) => files[fd] = ...): the stdio nodes
\* are allocated after the nodes of the tree
BindStdioFiles(nodes) ==
    [fd \in 0..2 |->
        [node |-> Len(nodes) + fd + 1, position |-> 0, isPreopen |-> FALSE,
         preopenPath |-> <<>>,
         path |-> <<"/", "dev", "/", "fd", "/", FdToken(fd)>>, fd |-> fd]]

BindStdioNodes(nodes) ==
    nodes \o [i \in 1..3 |-> StdioNode(StdioProxies[i])]

\* the preopen loop of useMemoryFS; st is [nodes, root, files, nextFd]
RECURSIVE OpenPreopens(_, _, _)
OpenPreopens(fs, st, paths) ==
    IF paths = <<>> THEN st
    ELSE LET preopenPath == Head(paths)
             node == lookup(fs, preopenPath)
         IN IF node # 0 /\ fs.nodes[node].type = "dir"
            THEN OpenPreopens(fs,
                   [st EXCEPT !.files = (st.nextFd :>
                                  [node |-> node, position |-> 0,
                                   isPreopen |-> TRUE, preopenPath |-> preopenPath,
                                   path |-> preopenPath, fd |-> st.nextFd]) @@ @,
                              !.nextFd = @ + 1],
                   Tail(paths))
            ELSE OpenPreopens(fs, st, Tail(paths))

\* useMemoryFS(useOptions)(wasiOptions, abi, memoryView) up to the return
\* variant: the first preopen takes descriptor 4
useMemoryFS_from4(fileSystem) ==
    OpenPreopens(fileSystem,
                 [nodes |-> BindStdioNodes(fileSystem.nodes),
                  root |-> fileSystem.root,
                  files |-> BindStdioFiles(fileSystem.nodes),
                  nextFd |-> 4],
                 fileSystem.preopenPaths)

useMemoryFS(fileSystem) ==
    OpenPreopens(fileSystem,
                 [nodes |-> BindStdioNodes(fileSystem.nodes),
                  root |-> fileSystem.root,
                  files |-> BindStdioFiles(fileSystem.nodes),
                  nextFd |-> 3],
                 fileSystem.preopenPaths)

(***************************************************************************)
(* The import handlers of useMemoryFS.  A handler takes the provider state *)
(* st = [nodes, root, files, nextFd] and its arguments and yields          *)
(*   st     the state it leaves                                            *)
(*   ret    the errno it returns                                           *)
(*   thrown TRUE when it leaves by a host exception instead                *)
(*   w      the scalars it writes to guest memory, by pointer argument     *)
(*   data   the bytes it stores into each iovec buffer, from offset 0      *)
(*   closeCalls  the stdio proxies whose close() it invoked, in order      *)
(***************************************************************************)
NoWrites == [p \in {} |-> 0]

Return(st, ret) ==
    [st |-> st, ret |-> ret, thrown |-> FALSE, w |-> NoWrites, data |-> <<>>,
     closeCalls |-> <<>>]
ReturnW(st, ret, w) ==
    [st |-> st, ret |-> ret, thrown |-> FALSE, w |-> w, data |-> <<>>,
     closeCalls |-> <<>>]
Throw(st) ==
    [st |-> st, ret |-> WASI_ESUCCESS, thrown |-> TRUE, w |-> NoWrites, data |-> <<>>,
     closeCalls |-> <<>>]

FsOf(st) == [nodes |-> st.nodes, root |-> st.root, preopenPaths |-> <<>>]

\* oflags & flag, flag a power of two
HasFlag(oflags, flag) == (oflags \div flag) % 2 = 1

\* for (const fd in files): integer keys in ascending order, first match
getFileFromPath(files, guestPath) ==
    LET m == {fd \in DOMAIN files : files[fd].path = guestPath} IN
    IF m = {} THEN -1 ELSE CHOOSE fd \in m : \A g \in m : fd <= g

\* files[fileDescriptor] || null, as the key or -1
getFileFromFD(files, fileDescriptor) ==
    IF fileDescriptor \in DOMAIN files THEN fileDescriptor ELSE -1

RECURSIVE SumLen(_)
SumLen(iovs) == IF iovs = <<>> THEN 0 ELSE Len(Head(iovs)) + SumLen(Tail(iovs))

RECURSIVE Sum(_)
Sum(ns) == IF ns = <<>> THEN 0 ELSE Head(ns) + Sum(Tail(ns))

RECURSIVE Concat(_)
Concat(iovs) == IF iovs = <<>> THEN <<>> ELSE Head(iovs) \o Concat(Tail(iovs))

(***************************************************************************)
(* The stdio proxies.  A chunk is what consume() returns or a handler is   *)
(* given: [kind |-> "string", units |-> code points] or                    *)
(* [kind |-> "bytes", units |-> bytes].  The code points stay below 65536  *)
(* and outside the surrogates, the bytes below 240.                        *)
(***************************************************************************)
Str(units) == [kind |-> "string", units |-> units]
Buf(bytes) == [kind |-> "bytes", units |-> bytes]

\* the marker of a byte of an iovec buffer that readv has not stored into
Hole == -1

\* the UTF-8 bytes of one code point
EncodeUnit(u) ==
    IF u < 128 THEN <<u>>
    ELSE IF u < 2048 THEN <<192 + (u \div 64), 128 + (u % 64)>>
    ELSE <<224 + (u \div 4096), 128 + ((u \div 64) % 64), 128 + (u % 64)>>

\* new TextEncoder().encode(string)
RECURSIVE Encode(_)
Encode(units) ==
    IF units = <<>> THEN <<>> ELSE EncodeUnit(Head(units)) \o Encode(Tail(units))

\* the UTF-8 decoder of a TextDecoder in replacement mode, one call without
\* { stream: true }: an ill-formed or truncated sequence gives U+FFFD
RECURSIVE Utf8Decode(_)
Utf8Decode(b) ==
    IF b = <<>> THEN <<>>
    ELSE LET b1 == Head(b)
             rest(n) == SubSeq(b, n + 1, Len(b))
         IN IF b1 < 128 THEN <<b1>> \o Utf8Decode(rest(1))
            ELSE IF b1 >= 194 /\ b1 <= 223
            THEN IF Len(b) >= 2 /\ b[2] >= 128 /\ b[2] <= 191
                 THEN <<(b1 - 192) * 64 + (b[2] - 128)>> \o Utf8Decode(rest(2))
                 ELSE <<65533>> \o Utf8Decode(rest(1))
            ELSE IF b1 >= 224 /\ b1 <= 239
            THEN LET lo == IF b1 = 224 THEN 160 ELSE 128
                     hi == IF b1 = 237 THEN 159 ELSE 191
                 IN IF Len(b) >= 2 /\ b[2] >= lo /\ b[2] <= hi
                    THEN IF Len(b) >= 3 /\ b[3] >= 128 /\ b[3] <= 191
                         THEN <<(b1 - 224) * 4096 + (b[2] - 128) * 64 + (b[3] - 128)>>
                              \o Utf8Decode(rest(3))
                         ELSE <<65533>> \o Utf8Decode(rest(2))
                    ELSE <<65533>> \o Utf8Decode(rest(1))
            ELSE <<65533>> \o Utf8Decode(rest(1))

\* this.decoder.decode(concatBuffer): the decoder drops a leading byte order
\* mark
TextDecode(bytes) ==
    LET units == Utf8Decode(bytes) IN
    IF units # <<>> /\ Head(units) = 65279 THEN Tail(units) ELSE units

\* WritableTextProxy.writev: what the handler is given, and the count returned
writev(outputBuffers, iovs) ==
    LET concatBuffer == Concat(iovs) IN
    [arg |-> IF outputBuffers THEN Buf(concatBuffer)
             ELSE Str(TextDecode(concatBuffer)),
     ret |-> Len(concatBuffer)]

\* ReadableTextProxy.pending: null, or the bytes carried over
NoPending == [isNull |-> TRUE, bytes |-> <<>>]
Pending(bytes) == [isNull |-> FALSE, bytes |-> bytes]

\* variant: consumePending that forgets what it does not hand out
consumePending_dropsRest(pending, requestLength) ==
    IF Len(pending) < requestLength
    THEN [result |-> pending, pending |-> NoPending]
    ELSE [result |-> SubSeq(pending, 1, requestLength), pending |-> NoPending]

\* ReadableTextProxy.consumePending
consumePending(pending, requestLength) ==
    IF Len(pending) < requestLength
    THEN [result |-> pending, pending |-> NoPending]
    ELSE [result |-> SubSeq(pending, 1, requestLength),
          pending |-> Pending(SubSeq(pending, requestLength + 1, Len(pending)))]

\* variant: buffer.set that stores at the start of the buffer
SetAt_start(buffer, bytes, offset) ==
    [i \in 1..Len(buffer) |-> IF i <= Len(bytes) THEN bytes[i] ELSE buffer[i]]

\* buffer.set(bytes, offset)
SetAt(buffer, bytes, offset) ==
    [i \in 1..Len(buffer) |->
        IF i > offset /\ i <= offset + Len(bytes) THEN bytes[i - offset]
        ELSE buffer[i]]

\* newData instanceof Uint8Array ? newData : this.encoder.encode(newData)
ChunkBytes(chunk) ==
    IF chunk.kind = "bytes" THEN chunk.units ELSE Encode(chunk.units)

\* the host's consume(): the next chunk of its source, "" when it has no more
Consume(source) ==
    IF source = <<>> THEN [chunk |-> Str(<<>>), source |-> <<>>]
    ELSE [chunk |-> Head(source), source |-> Tail(source)]

\* while (remaining > 0) of readv, for one buffer; s is [pending, source,
\* read, produced, returned]: produced the chunks consume() gave in this call,
\* returned whether the loop left by return read
RECURSIVE FillLoop(_, _, _)
FillLoop(s, buffer, remaining) ==
    IF remaining <= 0 THEN [s |-> s, buffer |-> buffer]
    ELSE LET c == Consume(s.source)
             bytes == ChunkBytes(c.chunk)
             s1 == [s EXCEPT !.source = c.source,
                             !.produced = Append(@, bytes)]
         IN IF Len(bytes) = 0
            THEN [s |-> [s1 EXCEPT !.returned = TRUE], buffer |-> buffer]
            ELSE IF Len(bytes) > remaining
            THEN [s |-> [s1 EXCEPT
                            !.pending = Pending(SubSeq(bytes, remaining + 1, Len(bytes))),
                            !.read = @ + remaining],
                  buffer |-> SetAt(buffer, SubSeq(bytes, 1, remaining),
                                   Len(buffer) - remaining)]
            ELSE FillLoop([s1 EXCEPT !.read = @ + Len(bytes)],
                          SetAt(buffer, bytes, Len(buffer) - remaining),
                          remaining - Len(bytes))

\* for (const buffer of iovs) of readv
RECURSIVE ReadvLoop(_, _, _)
ReadvLoop(s, bufs, i) ==
    IF i > Len(bufs) \/ s.returned THEN [s |-> s, bufs |-> bufs]
    ELSE LET buffer == bufs[i]
             p == IF s.pending.isNull
                  THEN [result |-> <<>>, pending |-> s.pending]
                  ELSE consumePending(s.pending.bytes, Len(buffer))
             b1 == IF s.pending.isNull THEN buffer ELSE SetAt(buffer, p.result, 0)
             s1 == [s EXCEPT !.pending = p.pending, !.read = @ + Len(p.result)]
             f == FillLoop(s1, b1, Len(buffer) - Len(p.result))
         IN ReadvLoop(f.s, [bufs EXCEPT ![i] = f.buffer], i + 1)

\* variant: readv that calls consume() once before it looks at the carried-over
\* bytes and the iovecs
readv_consumesFirst(pending, source, lens) ==
    LET c == Consume(source)
        bytes == ChunkBytes(c.chunk)
    IN ReadvLoop([pending |-> Pending(pending.bytes \o bytes), source |-> c.source,
                  read |-> 0, produced |-> <<bytes>>, returned |-> FALSE],
                 [i \in DOMAIN lens |-> [j \in 1..lens[i] |-> Hole]], 1)

\* ReadableTextProxy.readv on buffers of the lengths lens
readv(pending, source, lens) ==
    ReadvLoop([pending |-> pending, source |-> source, read |-> 0,
               produced |-> <<>>, returned |-> FALSE],
              [i \in DOMAIN lens |-> [j \in 1..lens[i] |-> Hole]], 1)

TokLen(t) ==
    CASE t = "dev" -> 3 [] t = "null" -> 4 [] t = "fd" -> 2 [] t = ".." -> 2
      [] OTHER -> 1

\* pathStr.length
RECURSIVE StrLen(_)
StrLen(s) == IF s = <<>> THEN 0 ELSE TokLen(Head(s)) + StrLen(Tail(s))

\* the UTF-16 code units of a token; "e_acute" stands for the one-unit
\* string U+00E9
TokUnits(t) ==
    CASE t = "/" -> <<47>>
      [] t = "." -> <<46>>
      [] t = ".." -> <<46, 46>>
      [] t = "a" -> <<97>>
      [] t = "f" -> <<102>>
      [] t = "fd" -> <<102, 100>>
      [] t = "dev" -> <<100, 101, 118>>
      [] t = "null" -> <<110, 117, 108, 108>>
      [] t = "e_acute" -> <<233>>
      [] OTHER -> <<120>>

\* pathStr.charCodeAt(i) for i = 0 .. pathStr.length - 1
RECURSIVE CharCodes(_)
CharCodes(s) == IF s = <<>> THEN <<>> ELSE TokUnits(Head(s)) \o CharCodes(Tail(s))

\* view.setUint8(pathPtr + i, code): the low eight bits are stored
SetUint8Each(codes) == [i \in DOMAIN codes |-> codes[i] % 256]

\* the copy loop of fd_read: lens are the byteLengths of the iovec buffers
RECURSIVE ReadLoop(_, _, _, _, _)
ReadLoop(data, position, available, totalRead, lens) ==
    IF lens = <<>> THEN [totalRead |-> totalRead, chunks |-> <<>>]
    ELSE IF totalRead >= available THEN [totalRead |-> totalRead, chunks |-> <<>>]
    ELSE LET bytesToRead == Min(Head(lens), available - totalRead) IN
         IF bytesToRead <= 0 THEN [totalRead |-> totalRead, chunks |-> <<>>]
         ELSE LET sourceStart == position + totalRead
                  chunk == SubSeq(data, sourceStart + 1, sourceStart + bytesToRead)
                  rest == ReadLoop(data, position, available,
                                   totalRead + bytesToRead, Tail(lens))
              IN [totalRead |-> rest.totalRead, chunks |-> <<chunk>> \o rest.chunks]

\* ReadableTextProxy.readv with the default stdin, () => "": consume() gives
\* no bytes, nothing is pending
StdinReadv(lens) == 0

\* variant: fd_read that reads from the start of the content
fd_read_fromStart(st, fd, lens) ==
    LET f == getFileFromFD(st.files, fd) IN
    IF f = -1 THEN Return(st, WASI_ERRNO_BADF)
    ELSE LET file == st.files[f]
             node == st.nodes[file.node]
         IN IF node.type = "character" /\ node.kind = "stdio"
            THEN ReturnW(st, WASI_ESUCCESS, "nread" :> StdinReadv(lens))
            ELSE IF node.type = "dir" THEN Return(st, WASI_ERRNO_ISDIR)
            ELSE IF node.type = "character" /\ node.kind = "devnull"
            THEN ReturnW(st, WASI_ESUCCESS, "nread" :> 0)
            ELSE LET data == node.content
                     available == Len(data)
                 IN IF available <= 0
                    THEN ReturnW(st, WASI_ESUCCESS, "nread" :> 0)
                    ELSE LET r == ReadLoop(data, 0, available, 0, lens)
                         IN [st |-> [st EXCEPT !.files[f].position = r.totalRead],
                             ret |-> WASI_ESUCCESS, thrown |-> FALSE,
                             w |-> "nread" :> r.totalRead, data |-> r.chunks,
                             closeCalls |-> <<>>]

\* variant: fd_read that leaves the position where it was
fd_read_noAdvance(st, fd, lens) ==
    LET f == getFileFromFD(st.files, fd) IN
    IF f = -1 THEN Return(st, WASI_ERRNO_BADF)
    ELSE LET file == st.files[f]
             node == st.nodes[file.node]
         IN IF node.type = "character" /\ node.kind = "stdio"
            THEN ReturnW(st, WASI_ESUCCESS, "nread" :> StdinReadv(lens))
            ELSE IF node.type = "dir" THEN Return(st, WASI_ERRNO_ISDIR)
            ELSE IF node.type = "character" /\ node.kind = "devnull"
            THEN ReturnW(st, WASI_ESUCCESS, "nread" :> 0)
            ELSE LET data == node.content
                     available == Len(data) - file.position
                 IN IF available <= 0
                    THEN ReturnW(st, WASI_ESUCCESS, "nread" :> 0)
                    ELSE LET r == ReadLoop(data, file.position, available, 0, lens)
                         IN [st |-> st,
                             ret |-> WASI_ESUCCESS, thrown |-> FALSE,
                             w |-> "nread" :> r.totalRead, data |-> r.chunks,
                             closeCalls |-> <<>>]

fd_read(st, fd, lens) ==
    LET f == getFileFromFD(st.files, fd) IN
    IF f = -1 THEN Return(st, WASI_ERRNO_BADF)
    ELSE LET file == st.files[f]
             node == st.nodes[file.node]
         IN IF node.type = "character" /\ node.kind = "stdio"
            THEN ReturnW(st, WASI_ESUCCESS, "nread" :> StdinReadv(lens))
            ELSE IF node.type = "dir" THEN Return(st, WASI_ERRNO_ISDIR)
            ELSE IF node.type = "character" /\ node.kind = "devnull"
            THEN ReturnW(st, WASI_ESUCCESS, "nread" :> 0)
            ELSE LET data == node.content
                     available == Len(data) - file.position
                 IN IF available <= 0
                    THEN ReturnW(st, WASI_ESUCCESS, "nread" :> 0)
                    ELSE LET r == ReadLoop(data, file.position, available, 0, lens)
                         IN [st |-> [st EXCEPT !.files[f].position = @ + r.totalRead],
                             ret |-> WASI_ESUCCESS, thrown |-> FALSE,
                             w |-> "nread" :> r.totalRead, data |-> r.chunks,
                             closeCalls |-> <<>>]

\* variant: the written bytes are appended to the content
Overwrite_append(content, pos, bytes) == content \o bytes

\* newContent.set(buf, pos) over a buffer of the required length
Overwrite(content, pos, bytes) ==
    [i \in 1..Max(Len(content), pos + Len(bytes)) |->
        IF i > pos /\ i <= pos + Len(bytes) THEN bytes[i - pos]
        ELSE IF i <= Len(content) THEN content[i] ELSE 0]

\* WritableTextProxy.writev / ReadableTextProxy.writev: the byte count
StdioWritev(entry, iovs) == IF entry = "stdin" THEN 0 ELSE SumLen(iovs)

\* variant: fd_write that reports no byte for /dev/null
fd_write_nullCountsNone(st, fd, iovs) ==
    LET f == getFileFromFD(st.files, fd) IN
    IF f = -1 THEN Return(st, WASI_ERRNO_BADF)
    ELSE LET file == st.files[f]
             node == st.nodes[file.node]
         IN IF node.type = "character" /\ node.kind = "stdio"
            THEN ReturnW(st, WASI_ESUCCESS, "nwritten" :> StdioWritev(node.entry, iovs))
            ELSE IF node.type = "dir" THEN Return(st, WASI_ERRNO_ISDIR)
            ELSE IF node.type = "character" /\ node.kind = "devnull"
            THEN ReturnW(st, WASI_ESUCCESS, "nwritten" :> 0)
            ELSE LET pos == file.position
                     dataToWrite == SumLen(iovs)
                     newContent == Overwrite(node.content, pos, Concat(iovs))
                 IN ReturnW([st EXCEPT !.nodes[file.node].content = newContent,
                                       !.files[f].position = pos + dataToWrite],
                            WASI_ESUCCESS, "nwritten" :> dataToWrite)

fd_write(st, fd, iovs) ==
    LET f == getFileFromFD(st.files, fd) IN
    IF f = -1 THEN Return(st, WASI_ERRNO_BADF)
    ELSE LET file == st.files[f]
             node == st.nodes[file.node]
         IN IF node.type = "character" /\ node.kind = "stdio"
            THEN ReturnW(st, WASI_ESUCCESS, "nwritten" :> StdioWritev(node.entry, iovs))
            ELSE IF node.type = "dir" THEN Return(st, WASI_ERRNO_ISDIR)
            ELSE IF node.type = "character" /\ node.kind = "devnull"
            THEN ReturnW(st, WASI_ESUCCESS, "nwritten" :> SumLen(iovs))
            ELSE LET pos == file.position
                     dataToWrite == SumLen(iovs)
                     newContent == Overwrite(node.content, pos, Concat(iovs))
                 IN ReturnW([st EXCEPT !.nodes[file.node].content = newContent,
                                       !.files[f].position = pos + dataToWrite],
                            WASI_ESUCCESS, "nwritten" :> dataToWrite)

\* variant: fd_close removes whatever entry it is given, stdio included
fd_close_removesStdio(st, fd) ==
    LET f == getFileFromFD(st.files, fd) IN
    IF f = -1 THEN Return(st, WASI_ERRNO_BADF)
    ELSE Return([st EXCEPT !.files =
                    [k \in DOMAIN st.files \ {fd} |-> st.files[k]]],
                WASI_ESUCCESS)

\* variant: fd_close that leaves the entry in the table
fd_close_keepsEntry(st, fd) ==
    LET f == getFileFromFD(st.files, fd) IN
    IF f = -1 THEN Return(st, WASI_ERRNO_BADF)
    ELSE LET node == st.nodes[st.files[f].node] IN
         IF node.type = "character" /\ node.kind = "stdio"
         THEN [Return(st, WASI_ESUCCESS) EXCEPT !.closeCalls = <<node.entry>>]
         ELSE Return(st, WASI_ESUCCESS)

\* file.node.entry.close() is recorded in closeCalls
fd_close(st, fd) ==
    LET f == getFileFromFD(st.files, fd) IN
    IF f = -1 THEN Return(st, WASI_ERRNO_BADF)
    ELSE LET node == st.nodes[st.files[f].node] IN
         IF node.type = "character" /\ node.kind = "stdio"
         THEN [Return(st, WASI_ESUCCESS) EXCEPT !.closeCalls = <<node.entry>>]
         ELSE Return([st EXCEPT !.files =
                         [k \in DOMAIN st.files \ {fd} |-> st.files[k]]],
                     WASI_ESUCCESS)

\* variant: fd_seek without the clamp of a negative position
fd_seek_noClamp(st, fd, offset, whence) ==
    IF fd < 3 THEN Return(st, WASI_ERRNO_BADF)
    ELSE LET f == getFileFromFD(st.files, fd) IN
         IF f = -1 \/ st.nodes[st.files[IF f = -1 THEN 0 ELSE f].node].type # "file"
         THEN Return(st, WASI_ERRNO_BADF)
         ELSE LET file == st.files[f]
                  fileLength == Len(st.nodes[file.node].content)
                  pos == CASE whence = 0 -> offset
                           [] whence = 1 -> file.position + offset
                           [] whence = 2 -> fileLength + offset
                           [] OTHER -> -1
              IN IF whence \notin {0, 1, 2} THEN Return(st, WASI_ERRNO_INVAL)
                 ELSE ReturnW([st EXCEPT !.files[f].position = pos],
                              WASI_ESUCCESS, "newOffset" :> pos)

fd_seek(st, fd, offset, whence) ==
    IF fd < 3 THEN Return(st, WASI_ERRNO_BADF)
    ELSE LET f == getFileFromFD(st.files, fd) IN
         IF f = -1 \/ st.nodes[st.files[IF f = -1 THEN 0 ELSE f].node].type # "file"
         THEN Return(st, WASI_ERRNO_BADF)
         ELSE LET file == st.files[f]
                  fileLength == Len(st.nodes[file.node].content)
                  moved == CASE whence = 0 -> offset
                             [] whence = 1 -> file.position + offset
                             [] whence = 2 -> fileLength + offset
                             [] OTHER -> -1
                  pos == IF moved < 0 THEN 0 ELSE moved
              IN IF whence \notin {0, 1, 2} THEN Return(st, WASI_ERRNO_INVAL)
                 ELSE ReturnW([st EXCEPT !.files[f].position = pos],
                              WASI_ESUCCESS, "newOffset" :> pos)

fd_tell(st, fd) ==
    IF fd < 3 THEN Return(st, WASI_ERRNO_BADF)
    ELSE LET f == getFileFromFD(st.files, fd) IN
         IF f = -1 THEN Return(st, WASI_ERRNO_BADF)
         ELSE ReturnW(st, WASI_ESUCCESS, "offset_ptr" :> st.files[f].position)

\* switch (file.node.type) of fd_fdstat_get and fd_filestat_get
FiletypeOf(node) ==
    CASE node.type = "character" -> WASI_FILETYPE_CHARACTER_DEVICE
      [] node.type = "dir" -> WASI_FILETYPE_DIRECTORY
      [] node.type = "file" -> WASI_FILETYPE_REGULAR_FILE

\* abi.writeFdstat(view, buf, filetype, 0)
fd_fdstat_get(st, fd) ==
    LET f == getFileFromFD(st.files, fd) IN
    IF f = -1 THEN Return(st, WASI_ERRNO_BADF)
    ELSE ReturnW(st, WASI_ESUCCESS,
                 ("filetype" :> FiletypeOf(st.nodes[st.files[f].node]))
                 @@ ("flags" :> 0) @@ ("rights_base" :> 0)
                 @@ ("rights_inheriting" :> 0))

\* abi.writeFilestat(view, buf, filetype); view.setBigUint64(buf + 32, size)
fd_filestat_get(st, fd) ==
    LET f == getFileFromFD(st.files, fd) IN
    IF f = -1 THEN Return(st, WASI_ERRNO_BADF)
    ELSE LET node == st.nodes[st.files[f].node] IN
         ReturnW(st, WASI_ESUCCESS,
                 ("filetype" :> FiletypeOf(node))
                 @@ ("size" :> IF node.type = "file" THEN Len(node.content) ELSE 0))

fd_prestat_get(st, fd) ==
    IF fd < 3 THEN Return(st, WASI_ERRNO_BADF)
    ELSE LET f == getFileFromFD(st.files, fd) IN
         IF f = -1 \/ ~st.files[IF f = -1 THEN 0 ELSE f].isPreopen
         THEN Return(st, WASI_ERRNO_BADF)
         ELSE ReturnW(st, WASI_ESUCCESS,
                      ("buf" :> 0) @@ ("buf+4" :> StrLen(st.files[f].preopenPath)))

\* view.setUint8(pathPtr + i, pathStr.charCodeAt(i)) for every i
fd_prestat_dir_name(st, fd, pathLen) ==
    IF fd < 3 THEN Return(st, WASI_ERRNO_BADF)
    ELSE LET f == getFileFromFD(st.files, fd) IN
         IF f = -1 \/ ~st.files[IF f = -1 THEN 0 ELSE f].isPreopen
         THEN Return(st, WASI_ERRNO_BADF)
         ELSE LET pathStr == st.files[f].preopenPath IN
              IF StrLen(pathStr) # pathLen THEN Return(st, WASI_ERRNO_INVAL)
              ELSE [Return(st, WASI_ESUCCESS) EXCEPT
                        !.data = << SetUint8Each(CharCodes(pathStr)) >>]

\* abi.writeFilestat(view, buf, filetype); view.setBigUint64(buf + 32, size)
path_filestat_get(st, fd, guestRelPath) ==
    LET f == getFileFromFD(st.files, fd) IN
    IF f = -1 THEN Return(st, WASI_ERRNO_BADF)
    ELSE IF st.nodes[st.files[f].node].type # "dir" THEN Return(st, WASI_ERRNO_NOTDIR)
    ELSE LET fullGuestPath == JoinDir(st.files[f].path, guestRelPath)
             node == lookup(FsOf(st), fullGuestPath)
         IN IF node = 0 THEN Return(st, WASI_ERRNO_NOENT)
            ELSE IF st.nodes[node].type = "character" /\ st.nodes[node].kind = "stdio"
                 THEN Return(st, WASI_ERRNO_INVAL)
            ELSE IF st.nodes[node].type = "dir"
                 THEN ReturnW(st, WASI_ESUCCESS,
                              ("filetype" :> WASI_FILETYPE_DIRECTORY) @@ ("size" :> 0))
            ELSE IF st.nodes[node].type = "character" /\ st.nodes[node].kind = "devnull"
                 THEN ReturnW(st, WASI_ESUCCESS,
                              ("filetype" :> WASI_FILETYPE_CHARACTER_DEVICE)
                              @@ ("size" :> 0))
            ELSE ReturnW(st, WASI_ESUCCESS,
                         ("filetype" :> WASI_FILETYPE_REGULAR_FILE)
                         @@ ("size" :> Len(st.nodes[node].content)))

\* the table entry path_open adds
NewOpenFile(target, guestPath, nextFd) ==
    [node |-> target, position |-> 0, isPreopen |-> FALSE, preopenPath |-> <<>>,
     path |-> guestPath, fd |-> nextFd]

\* variant: the lowest free descriptor from 3 upward is allocated
AllocateFd_lowestFree(st, target, guestPath) ==
    LET free == CHOOSE n \in 3..st.nextFd :
                    /\ n \notin DOMAIN st.files
                    /\ \A m \in 3..(n - 1) : m \in DOMAIN st.files
    IN ReturnW([st EXCEPT !.files = (free :> NewOpenFile(target, guestPath, free)) @@ @,
                          !.nextFd = IF free = @ THEN @ + 1 ELSE @],
               WASI_ESUCCESS, "opened_fd" :> free)

\* files[nextFd] = {...}; view.setUint32(opened_fd, nextFd, true); nextFd++
AllocateFd(st, target, guestPath) ==
    ReturnW([st EXCEPT !.files = (st.nextFd :> NewOpenFile(target, guestPath, st.nextFd)) @@ @,
                       !.nextFd = @ + 1],
            WASI_ESUCCESS, "opened_fd" :> st.nextFd)

\* if (existing) { view.setUint32(opened_fd, existing.fd, true); return ESUCCESS }
ReturnExisting(st, existing) ==
    ReturnW(st, WASI_ESUCCESS, "opened_fd" :> st.files[existing].fd)

\* variant: path_open without the look-up of an entry already open at the path
path_open_noDedup(st, dirfd, path, oflags) ==
    IF dirfd < 3 THEN Return(st, WASI_ERRNO_NOTDIR)
    ELSE LET d == getFileFromFD(st.files, dirfd) IN
    IF d = -1 THEN Return(st, WASI_ERRNO_NOTDIR)
    ELSE LET dirEntry == st.files[d] IN
    IF st.nodes[dirEntry.node].type # "dir" THEN Return(st, WASI_ERRNO_NOTDIR)
    ELSE LET guestPath == normalizePath(JoinDir(dirEntry.path, path))
             target == resolve(FsOf(st), dirEntry.node, path)
         IN
    IF target # 0
    THEN IF HasFlag(oflags, WASI_OFLAGS_EXCL) THEN Return(st, WASI_ERRNO_EXIST)
         ELSE IF HasFlag(oflags, WASI_OFLAGS_TRUNC)
         THEN IF st.nodes[target].type # "file" THEN Return(st, WASI_ERRNO_INVAL)
              ELSE AllocateFd([st EXCEPT !.nodes[target].content = <<>>],
                              target, guestPath)
         ELSE AllocateFd(st, target, guestPath)
    ELSE IF ~HasFlag(oflags, WASI_OFLAGS_CREAT) THEN Return(st, WASI_ERRNO_NOENT)
         ELSE LET c == createFileIn(FsOf(st), dirEntry.node, path) IN
              IF c.thrown THEN Throw([st EXCEPT !.nodes = c.fs.nodes])
              ELSE AllocateFd([st EXCEPT !.nodes = c.fs.nodes], c.node, guestPath)

\* variant: path_open that takes the next descriptor number before it looks at
\* the target, so a failing open uses a number up
path_open_countsFirst(st, dirfd, path, oflags) ==
    IF dirfd < 3 THEN Return(st, WASI_ERRNO_NOTDIR)
    ELSE LET d == getFileFromFD(st.files, dirfd) IN
    IF d = -1 THEN Return(st, WASI_ERRNO_NOTDIR)
    ELSE LET dirEntry == st.files[d] IN
    IF st.nodes[dirEntry.node].type # "dir" THEN Return(st, WASI_ERRNO_NOTDIR)
    ELSE LET guestPath == normalizePath(JoinDir(dirEntry.path, path))
             existing == getFileFromPath(st.files, guestPath)
             counted == [st EXCEPT !.nextFd = @ + 1]
         IN
    IF existing # -1 THEN ReturnExisting(st, existing)
    ELSE LET target == resolve(FsOf(st), dirEntry.node, path) IN
    IF target # 0
    THEN IF HasFlag(oflags, WASI_OFLAGS_EXCL) THEN Return(counted, WASI_ERRNO_EXIST)
         ELSE IF HasFlag(oflags, WASI_OFLAGS_TRUNC)
         THEN IF st.nodes[target].type # "file" THEN Return(counted, WASI_ERRNO_INVAL)
              ELSE AllocateFd([st EXCEPT !.nodes[target].content = <<>>],
                              target, guestPath)
         ELSE AllocateFd(st, target, guestPath)
    ELSE IF ~HasFlag(oflags, WASI_OFLAGS_CREAT) THEN Return(counted, WASI_ERRNO_NOENT)
         ELSE LET c == createFileIn(FsOf(st), dirEntry.node, path) IN
              IF c.thrown THEN Throw([st EXCEPT !.nodes = c.fs.nodes])
              ELSE AllocateFd([st EXCEPT !.nodes = c.fs.nodes], c.node, guestPath)

path_open(st, dirfd, path, oflags) ==
    IF dirfd < 3 THEN Return(st, WASI_ERRNO_NOTDIR)
    ELSE LET d == getFileFromFD(st.files, dirfd) IN
    IF d = -1 THEN Return(st, WASI_ERRNO_NOTDIR)
    ELSE LET dirEntry == st.files[d] IN
    IF st.nodes[dirEntry.node].type # "dir" THEN Return(st, WASI_ERRNO_NOTDIR)
    ELSE LET guestPath == normalizePath(JoinDir(dirEntry.path, path))
             existing == getFileFromPath(st.files, guestPath)
         IN
    IF existing # -1 THEN ReturnExisting(st, existing)
    ELSE LET target == resolve(FsOf(st), dirEntry.node, path) IN
    IF target # 0
    THEN IF HasFlag(oflags, WASI_OFLAGS_EXCL) THEN Return(st, WASI_ERRNO_EXIST)
         ELSE IF HasFlag(oflags, WASI_OFLAGS_TRUNC)
         THEN IF st.nodes[target].type # "file" THEN Return(st, WASI_ERRNO_INVAL)
              ELSE AllocateFd([st EXCEPT !.nodes[target].content = <<>>],
                              target, guestPath)
         ELSE AllocateFd(st, target, guestPath)
    ELSE IF ~HasFlag(oflags, WASI_OFLAGS_CREAT) THEN Return(st, WASI_ERRNO_NOENT)
         ELSE LET c == createFileIn(FsOf(st), dirEntry.node, path) IN
              IF c.thrown THEN Throw([st EXCEPT !.nodes = c.fs.nodes])
              ELSE AllocateFd([st EXCEPT !.nodes = c.fs.nodes], c.node, guestPath)

path_create_directory(st, fd, guestRelPath) ==
    LET d == getFileFromFD(st.files, fd) IN
    IF d = -1 THEN Return(st, WASI_ERRNO_NOTDIR)
    ELSE IF st.nodes[st.files[d].node].type # "dir" THEN Return(st, WASI_ERRNO_NOTDIR)
    ELSE LET fullGuestPath == JoinDir(st.files[d].path, guestRelPath)
             e == ensureDir(FsOf(st), fullGuestPath)
         IN IF e.thrown THEN Throw([st EXCEPT !.nodes = e.fs.nodes])
            ELSE Return([st EXCEPT !.nodes = e.fs.nodes], WASI_ESUCCESS)

path_unlink_file(st, fd, guestRelPath) ==
    LET d == getFileFromFD(st.files, fd) IN
    IF d = -1 THEN Return(st, WASI_ERRNO_NOTDIR)
    ELSE IF st.nodes[st.files[d].node].type # "dir" THEN Return(st, WASI_ERRNO_NOTDIR)
    ELSE LET fullGuestPath == JoinDir(st.files[d].path, guestRelPath)
             e == removeEntry(FsOf(st), fullGuestPath)
         IN IF e.thrown THEN Throw(st)
            ELSE Return([st EXCEPT !.nodes = e.fs.nodes], WASI_ESUCCESS)

path_remove_directory(st, fd, guestRelPath) ==
    LET d == getFileFromFD(st.files, fd) IN
    IF d = -1 THEN Return(st, WASI_ERRNO_NOTDIR)
    ELSE IF st.nodes[st.files[d].node].type # "dir" THEN Return(st, WASI_ERRNO_NOTDIR)
    ELSE LET fullGuestPath == JoinDir(st.files[d].path, guestRelPath)
             e == removeEntry(FsOf(st), fullGuestPath)
         IN IF e.thrown THEN Throw(st)
            ELSE Return([st EXCEPT !.nodes = e.fs.nodes], WASI_ESUCCESS)

(***************************************************************************)
(* The memory-FS provider as a state machine                               *)
(***************************************************************************)
VARIABLES
    wasiOptions,     \* the options the driver was constructed with
    wasiImport,  \* WASI.wasiImport: name -> the provider whose function is
                 \* bound to it, "ENOSYS" for the default stub
    isStarted,   \* WASI.isStarted
    instance,    \* WASI.instance, NoInstance for null
    pc,          \* "host", or the guest entry point that is running
    entered,     \* the number of guest entry points invoked so far
    hostCalls,   \* the number of start()/initialize() calls made so far
    guestCalls,  \* the number of import calls of the running entry point
    outcome,     \* how the last start()/initialize() call ended
    lastImport   \* the last import call of the guest

drvVars == <<wasiOptions, wasiImport, isStarted, instance, pc, entered, hostCalls,
             guestCalls, outcome, lastImport>>

VARIABLES
    preopens,      \* the preopens option the host gave
    added,         \* the addFile calls the host made: <<[path, content]>>
    preopenPaths,  \* MemoryFileSystem.preopenPaths
    nodes,         \* the heap of file-tree nodes
    root,          \* MemoryFileSystem.root
    files,         \* the open-file table of useMemoryFS
    nextFd,        \* the next-descriptor counter of useMemoryFS
    last,          \* the last import call: [op, ret, thrown, w, data]
    steps,         \* the number of import calls made so far
    assigned       \* history: every descriptor number bound so far

fsVars == <<preopens, added, preopenPaths, nodes, root, files, nextFd, last,
            steps, assigned>>

VARIABLES
    stdio,    \* the stdio proxies bindStdio made: outputBuffers, the pending
              \* bytes of the readable proxy, and source, the chunks the
              \* host's stdin callback has still to return
    io,       \* history: consumed, the bytes of the chunks consume() returned;
              \* delivered, the bytes readv stored into iovecs; calls, the
              \* fd_write calls on stdio descriptors; handled, the handler
              \* invocations
    stdLast   \* the last call on a stdio descriptor and what it did

stdVars == <<stdio, io, stdLast>>

VARIABLES
    args,      \* the args option the driver was constructed with: a list of
               \* strings, each the sequence of its code points
    mem,       \* the memory the instance exports: buffer, the identity of the
               \* ArrayBuffer that backs it now, and bytes, its content
    memLast,   \* the last import call that was given memory addresses: its
               \* name, what it returned, whether it threw, the buffer of the
               \* view it obtained (0 for none), and views, the buffers of the
               \* views of all such calls so far
    memSteps   \* the number of steps taken on the memory so far

memVars == <<args, mem, memLast, memSteps>>

vars == <<fsVars, drvVars, stdVars, memVars>>

St == [nodes |-> nodes, root |-> root, files |-> files, nextFd |-> nextFd]

\* the host configurations the model starts from
HostFile == [path |-> <<"/", "a", "/", "f">>, content |-> <<1, 2>>]

HostChoices ==
    { [preopens |-> [given |-> FALSE, keys |-> <<>>], adds |-> <<>>],
      [preopens |-> [given |-> FALSE, keys |-> <<>>], adds |-> <<HostFile>>],
      [preopens |-> [given |-> TRUE, keys |-> <<>>], adds |-> <<>>],
      [preopens |-> [given |-> TRUE, keys |-> << <<"/", "a">> >>],
       adds |-> <<HostFile>>],
      [preopens |-> [given |-> TRUE, keys |-> << <<"/", "a">>, <<"/">> >>],
       adds |-> <<HostFile>>] }

Bytes == {0, 1, 2}

\* the relative paths the guest passes
GuestPaths ==
    { <<"f">>, <<"a", "/", "f">>, <<"..", "/", "f">>, <<"a">> }

\* the descriptors the guest passes
\* the descriptors the guest passes: stdout, every number assigned from 3
\* upward, open or closed, and the next, unassigned one
GuestFds == {1} \cup 3..nextFd
CloseFds == 0..nextFd
AllFds == 0..(MaxFd + 1)

OflagChoices ==
    { 0, WASI_OFLAGS_CREAT, WASI_OFLAGS_EXCL, WASI_OFLAGS_TRUNC }

\* the iovec buffer lengths the guest passes to fd_read
ReadIovs == { <<1>>, <<1, MaxLen>> }

\* the iovec contents the guest passes to fd_write
WriteIovs == { << <<1>> >>, << <<2>>, <<1>> >> }

SeekOffsets == { -1, 1 }
Whences == 0..3

\* the provider built for the host configuration h
\* withStdio as the host gave it: the chunks its stdin callback returns, and
\* outputBuffers; bindStdio's defaults are a stdin that returns "" and
\* outputBuffers false
DefaultStdio == [source |-> <<>>, outputBuffers |-> FALSE]

NoStdioCall ==
    [op |-> "none", fd |-> 0, ret |-> 0, w |-> NoWrites, lens |-> <<>>,
     iovs |-> <<>>, bufs |-> <<>>, invoked |-> <<>>, pendingBefore |-> <<>>,
     produced |-> <<>>]

\* bindStdio: new ReadableTextProxy(stdin), new WritableTextProxy(stdout,
\* outputBuffers), new WritableTextProxy(stderr, outputBuffers)
StdInitOf(o) ==
    /\ stdio = [outputBuffers |-> o.outputBuffers, source |-> o.source,
                pending |-> NoPending]
    /\ io = [consumed |-> <<>>, delivered |-> <<>>, calls |-> <<>>,
             handled |-> <<>>]
    /\ stdLast = NoStdioCall

FsInitOf(h) ==
        LET p == h.preopens
            a == h.adds
            fileSystem == addFile(MemoryFileSystem(p), a)
            st == useMemoryFS(fileSystem)
        IN /\ preopens = p
           /\ added = a
           /\ preopenPaths = fileSystem.preopenPaths
           /\ nodes = st.nodes
           /\ root = st.root
           /\ files = st.files
           /\ nextFd = st.nextFd
           /\ last = [op |-> "none", ret |-> 0, thrown |-> FALSE,
                      w |-> NoWrites, data |-> <<>>, closeCalls |-> <<>>]
           /\ steps = 0
           /\ assigned = DOMAIN st.files

\* the state the handler leaves, within the bounds of the model
InBounds(st) ==
    /\ Len(st.nodes) <= MaxNodes
    /\ st.nextFd <= MaxFd + 1
    /\ \A n \in DOMAIN st.nodes : Len(st.nodes[n].content) <= MaxLen
    /\ \A fd \in DOMAIN st.files : st.files[fd].position <= MaxLen

Apply(op, r) ==
    /\ InBounds(r.st)
    /\ steps' = steps + 1
    /\ assigned' = assigned \cup DOMAIN r.st.files
    /\ nodes' = r.st.nodes
    /\ root' = r.st.root
    /\ files' = r.st.files
    /\ nextFd' = r.st.nextFd
    /\ last' = [op |-> op, ret |-> r.ret, thrown |-> r.thrown,
                w |-> r.w, data |-> r.data, closeCalls |-> r.closeCalls]
    /\ UNCHANGED <<preopens, added, preopenPaths>>
    /\ UNCHANGED <<drvVars, stdVars, memVars>>

PathOpen(dirfd, path, oflags) ==
    /\ steps < MaxSteps
    /\ Apply("path_open", path_open(St, dirfd, path, oflags))

FdRead(fd, lens) ==
    /\ steps < MaxSteps
    /\ Apply("fd_read", fd_read(St, fd, lens))

FdWrite(fd, iovs) ==
    /\ steps < MaxSteps
    /\ Apply("fd_write", fd_write(St, fd, iovs))

FdClose(fd) ==
    /\ steps < MaxSteps
    /\ Apply("fd_close", fd_close(St, fd))

FdSeek(fd, offset, whence) ==
    /\ steps < MaxSteps
    /\ Apply("fd_seek", fd_seek(St, fd, offset, whence))

FdTell(fd) ==
    /\ steps < MaxSteps
    /\ Apply("fd_tell", fd_tell(St, fd))

FdPrestatGet(fd) ==
    /\ steps < MaxSteps
    /\ Apply("fd_prestat_get", fd_prestat_get(St, fd))

PathCreateDirectory(fd, path) ==
    /\ steps < MaxSteps
    /\ Apply("path_create_directory", path_create_directory(St, fd, path))

PathUnlinkFile(fd, path) ==
    /\ steps < MaxSteps
    /\ Apply("path_unlink_file", path_unlink_file(St, fd, path))

PathRemoveDirectory(fd, path) ==
    /\ steps < MaxSteps
    /\ Apply("path_remove_directory", path_remove_directory(St, fd, path))

FsNext ==
    \/ \E fd \in GuestFds, path \in GuestPaths, oflags \in OflagChoices :
           PathOpen(fd, path, oflags)
    \/ \E fd \in GuestFds, lens \in ReadIovs : FdRead(fd, lens)
    \/ \E fd \in GuestFds, iovs \in WriteIovs : FdWrite(fd, iovs)
    \/ \E fd \in CloseFds : FdClose(fd)
    \/ \E fd \in GuestFds, offset \in SeekOffsets, whence \in Whences :
           FdSeek(fd, offset, whence)
    \/ \E fd \in GuestFds : FdTell(fd)
    \/ \E fd \in GuestFds : FdPrestatGet(fd)
    \/ \E fd \in GuestFds, path \in GuestPaths : PathCreateDirectory(fd, path)
    \/ \E fd \in GuestFds, path \in GuestPaths : PathUnlinkFile(fd, path)
    \/ \E fd \in GuestFds, path \in GuestPaths : PathRemoveDirectory(fd, path)

(***************************************************************************)
(* The file-content calls on one provider: the default preopen "/" at      *)
(* descriptor 3 and the host file /a/f                                     *)
(***************************************************************************)
IoPaths == { <<"a", "/", "f">>, <<"f">>, <<"dev", "/", "null">> }
IoOflags == { 0, WASI_OFLAGS_CREAT, WASI_OFLAGS_TRUNC }
\* every descriptor assigned from 3 upward, open or closed, and the next one
IoFds == 3..nextFd

IoOpen(path, oflags) ==
    /\ steps < MaxIoSteps
    /\ Apply("path_open", path_open(St, 3, path, oflags))

IoRead(fd, lens) ==
    /\ steps < MaxIoSteps
    /\ Apply("fd_read", fd_read(St, fd, lens))

IoWrite(fd, iovs) ==
    /\ steps < MaxIoSteps
    /\ Apply("fd_write", fd_write(St, fd, iovs))

IoSeek(fd, offset, whence) ==
    /\ steps < MaxIoSteps
    /\ Apply("fd_seek", fd_seek(St, fd, offset, whence))

IoTell(fd) ==
    /\ steps < MaxIoSteps
    /\ Apply("fd_tell", fd_tell(St, fd))

IoFdstatGet(fd) ==
    /\ steps < MaxIoSteps
    /\ Apply("fd_fdstat_get", fd_fdstat_get(St, fd))

IoFilestatGet(fd) ==
    /\ steps < MaxIoSteps
    /\ Apply("fd_filestat_get", fd_filestat_get(St, fd))

IoClose(fd) ==
    /\ steps < MaxIoSteps
    /\ Apply("fd_close", fd_close(St, fd))

IoNext ==
    \/ \E path \in IoPaths, oflags \in IoOflags : IoOpen(path, oflags)
    \/ \E fd \in IoFds, lens \in ReadIovs : IoRead(fd, lens)
    \/ \E fd \in IoFds, iovs \in WriteIovs : IoWrite(fd, iovs)
    \/ \E fd \in IoFds, offset \in SeekOffsets, whence \in Whences :
           IoSeek(fd, offset, whence)
    \/ \E fd \in IoFds : IoTell(fd)
    \/ \E fd \in IoFds : IoFdstatGet(fd)
    \/ \E fd \in IoFds : IoFilestatGet(fd)
    \/ \E fd \in 0..nextFd : IoClose(fd)

(***************************************************************************)
(* Feature providers and the driver (class WASI)                           *)
(***************************************************************************)
Providers ==
    { "useArgs", "useClock", "useEnviron", "useProc", "useRandom", "useStdio",
      "useMemoryFS", "useFS", "useAll", "useTrace" }

\* the import names a leaf provider returns
LeafNames(p) ==
    CASE p = "useArgs" -> {"args_get", "args_sizes_get"}
      [] p = "useClock" -> {"clock_res_get", "clock_time_get"}
      [] p = "useEnviron" -> {"environ_get", "environ_sizes_get"}
      [] p = "useProc" -> {"proc_exit", "proc_raise"}
      [] p = "useRandom" -> {"random_get"}
      [] p = "useStdio" ->
            {"fd_fdstat_get", "fd_filestat_get", "fd_prestat_get",
             "fd_prestat_dir_name", "fd_write", "fd_read"}
      [] p = "useMemoryFS" ->
            {"fd_read", "fd_write", "fd_close", "fd_seek", "fd_tell",
             "fd_fdstat_get", "fd_filestat_get", "fd_prestat_get",
             "fd_prestat_dir_name", "path_open", "path_create_directory",
             "path_unlink_file", "path_remove_directory", "path_filestat_get"}
      [] OTHER -> {}

\* the object a leaf provider returns: each name bound to its function
LeafImports(p) == [k \in LeafNames(p) |-> p]

\* variant: a name already in acc keeps its function
Spread_keepFirst(acc, imports) ==
    [k \in DOMAIN acc \cup DOMAIN imports |->
        IF k \in DOMAIN acc THEN acc[k] ELSE imports[k]]

\* { ...acc, ...imports }
Spread(acc, imports) ==
    [k \in DOMAIN acc \cup DOMAIN imports |->
        IF k \in DOMAIN imports THEN imports[k] ELSE acc[k]]

RECURSIVE Reduce(_, _)
Reduce(leaves, acc) ==
    IF leaves = <<>> THEN acc
    ELSE Reduce(Tail(leaves), Spread(acc, LeafImports(Head(leaves))))

NoImports == [k \in {} |-> ""]

\* useAll(useOptions)(wasiOptions, abi, memoryView)
useAll ==
    Reduce(<<"useMemoryFS", "useEnviron", "useArgs", "useClock", "useProc",
             "useRandom">>, NoImports)

\* the features the host hands to useTrace in this model
TracedFeatures == <<"useMemoryFS", "useStdio">>

\* the wrapper useTrace puts around the function of a provider, and the
\* function a wrapper calls
TraceOf(p) ==
    CASE p = "useMemoryFS" -> "useTrace(useMemoryFS)"
      [] p = "useStdio" -> "useTrace(useStdio)"
      [] OTHER -> "useTrace"
Original(f) ==
    CASE f = "useTrace(useMemoryFS)" -> "useMemoryFS"
      [] f = "useTrace(useStdio)" -> "useStdio"
      [] OTHER -> f

\* useTrace(features)(options, abi, memoryView)
useTrace ==
    LET merged == Reduce(TracedFeatures, NoImports)
    IN [key \in DOMAIN merged |-> TraceOf(merged[key])]

\* useFeature(wasiOptions, abi, this.view.bind(this))
ProviderImports(p) ==
    IF p = "useAll" THEN useAll
    ELSE IF p = "useTrace" THEN useTrace
    ELSE LeafImports(p)

RECURSIVE MergeFeatures(_, _)
MergeFeatures(features, wasiImport0) ==
    IF features = <<>> THEN wasiImport0
    ELSE MergeFeatures(Tail(features),
                       Spread(wasiImport0, ProviderImports(Head(features))))

EnosysStub(key) == "ENOSYS"

\* variant: the constructor without the loop over IMPORT_FUNCTIONS
FillMissing_none(wasiImport0) == wasiImport0

\* the loop over WASIAbi.IMPORT_FUNCTIONS of the constructor
FillMissing(wasiImport0) ==
    [key \in DOMAIN wasiImport0 \cup IMPORT_FUNCTIONS |->
        IF key \in DOMAIN wasiImport0 THEN wasiImport0[key] ELSE EnosysStub(key)]

\* WASI.constructor: options is [given, hasFeatures, features]
Constructor(options) ==
    FillMissing(IF options.given /\ options.hasFeatures
                THEN MergeFeatures(options.features, NoImports)
                ELSE NoImports)

NoInstance == [start |-> "null", initialize |-> "null", memory |-> "null"]

\* the instances the host passes: each export is "undefined", a "function",
\* a "memory" or some "other" value
Instances ==
    { [start |-> "function", initialize |-> "undefined", memory |-> "memory"],
      [start |-> "function", initialize |-> "undefined", memory |-> "undefined"],
      [start |-> "undefined", initialize |-> "function", memory |-> "memory"],
      [start |-> "function", initialize |-> "function", memory |-> "memory"],
      [start |-> "other", initialize |-> "other", memory |-> "memory"],
      [start |-> "undefined", initialize |-> "undefined", memory |-> "undefined"] }

ProviderChoices ==
    {"useProc", "useRandom", "useStdio", "useMemoryFS", "useAll", "useTrace"}

FeatureLists == UNION {[1..n -> ProviderChoices] : n \in 0..MaxFeatures}

OptionChoices ==
    {[given |-> FALSE, hasFeatures |-> FALSE, features |-> <<>>],
     [given |-> TRUE, hasFeatures |-> FALSE, features |-> <<>>]}
    \cup {[given |-> TRUE, hasFeatures |-> TRUE, features |-> f] : f \in FeatureLists}

\* the import names and arguments the guest uses in this model
GuestImports ==
    {"proc_exit", "proc_raise", "random_get", "sched_yield", "fd_filestat_get"}
ExitCodes == {0, 42}
RandomBytes == {0, 1}
GuestTraps == {"RuntimeError"}

NoOutcome == [method |-> "none", how |-> "none", code |-> 0, error |-> ""]
Returned(method, code) ==
    [method |-> method, how |-> "returned", code |-> code, error |-> ""]
Threw(method, error, code) ==
    [method |-> method, how |-> "threw", code |-> code, error |-> error]
Running(method) == [method |-> method, how |-> "running", code |-> 0, error |-> ""]

NoImportCall ==
    [name |-> "", how |-> "none", ret |-> 0, error |-> "", w |-> <<>>,
     numeric |-> TRUE]

\* WASI.view: the error it throws, "" when it returns a DataView
view(inst) ==
    IF inst = NoInstance
    THEN "wasi.start() or wasi.initialize() has not been called"
    ELSE IF inst.memory = "undefined" THEN "instance.exports.memory is undefined"
    ELSE IF inst.memory # "memory"
    THEN "instance.exports.memory is not a WebAssembly.Memory"
    ELSE ""

\* a call of wasiImport[name] by the guest: arg is the first argument, bytes
\* what randomFillSync produces.  how is "returned" with the errno ret, or
\* "threw" with error (and ret the exit code of a WASIProcExit); numeric is
\* FALSE when the function returned undefined instead of a number.
ImportReturn(name, ret, w) ==
    [name |-> name, how |-> "returned", ret |-> ret, error |-> "", w |-> w,
     numeric |-> TRUE]
ImportThrow(name, error, code) ==
    [name |-> name, how |-> "threw", ret |-> code, error |-> error, w |-> <<>>,
     numeric |-> TRUE]

\* the functions of useStdio: fdTable[fd] is looked up before memoryView() is
\* called, and fd_filestat_get ends without a return statement
useStdioCall(inst, name, fd) ==
    IF name \in {"fd_prestat_get", "fd_prestat_dir_name"}
    THEN ImportReturn(name, WASI_ERRNO_BADF, <<>>)
    ELSE IF fd \notin 0..2 THEN ImportReturn(name, WASI_ERRNO_BADF, <<>>)
    ELSE IF view(inst) # "" THEN ImportThrow(name, view(inst), 0)
    ELSE IF name = "fd_filestat_get"
    THEN [ImportReturn(name, 0, <<>>) EXCEPT !.numeric = FALSE]
    ELSE ImportReturn(name, WASI_ESUCCESS, <<>>)

callImport(table, inst, name, arg, bytes) ==
    LET f == Original(table[name]) IN
    IF f = "ENOSYS" THEN ImportReturn(name, WASI_ENOSYS, <<>>)
    ELSE IF f = "useProc" /\ name = "proc_exit"
    THEN ImportThrow(name, "WASIProcExit", arg)
    ELSE IF f = "useProc" /\ name = "proc_raise"
    THEN ImportReturn(name, WASI_ESUCCESS, <<>>)
    ELSE IF f = "useStdio" THEN useStdioCall(inst, name, arg)
    ELSE IF view(inst) # "" THEN ImportThrow(name, view(inst), 0)
    ELSE ImportReturn(name, WASI_ESUCCESS, bytes)

\* variant: start() without the catch clause
startCatch_rethrow(e) == Threw("start", e.error, e.ret)

\* the catch clause of start(): the outcome of start() when _start threw e
startCatch(e) ==
    IF e.error = "WASIProcExit" THEN Returned("start", e.ret)
    ELSE Threw("start", e.error, e.ret)

DrvInitOf(o) ==
    /\ wasiOptions = o
    /\ wasiImport = Constructor(o)
    /\ isStarted = FALSE
    /\ instance = NoInstance
    /\ pc = "host"
    /\ entered = 0
    /\ hostCalls = 0
    /\ guestCalls = 0
    /\ outcome = NoOutcome
    /\ lastImport = NoImportCall

AlreadyCalled == "wasi.start() or wasi.initialize() has already been called"

\* variant: start() that marks the driver as started only once the instance
\* has passed the checks of its _start export
Start_checksFirst(inst) ==
    /\ pc = "host"
    /\ hostCalls < MaxCalls
    /\ hostCalls' = hostCalls + 1
    /\ guestCalls' = 0
    /\ UNCHANGED <<wasiOptions, wasiImport, lastImport>>
    /\ UNCHANGED <<fsVars, stdVars, memVars>>
    /\ IF isStarted
       THEN /\ outcome' = Threw("start", AlreadyCalled, 0)
            /\ UNCHANGED <<isStarted, instance, pc, entered>>
       ELSE /\ instance' = inst
            /\ IF inst.start = "undefined"
               THEN /\ outcome' = Threw("start", "instance.exports._start is undefined", 0)
                    /\ UNCHANGED <<isStarted, pc, entered>>
               ELSE IF inst.start # "function"
               THEN /\ outcome' = Threw("start", "instance.exports._start is not a function", 0)
                    /\ UNCHANGED <<isStarted, pc, entered>>
               ELSE /\ isStarted' = TRUE
                    /\ outcome' = Running("start")
                    /\ pc' = "start"
                    /\ entered' = entered + 1

\* variant: start() without the isStarted guard
Start_noGuard(inst) ==
    /\ pc = "host"
    /\ hostCalls < MaxCalls
    /\ hostCalls' = hostCalls + 1
    /\ guestCalls' = 0
    /\ UNCHANGED <<wasiOptions, wasiImport, lastImport>>
    /\ UNCHANGED <<fsVars, stdVars, memVars>>
    /\ isStarted' = TRUE
    /\ instance' = inst
    /\ IF inst.start = "undefined"
       THEN /\ outcome' = Threw("start", "instance.exports._start is undefined", 0)
            /\ UNCHANGED <<pc, entered>>
       ELSE IF inst.start # "function"
       THEN /\ outcome' = Threw("start", "instance.exports._start is not a function", 0)
            /\ UNCHANGED <<pc, entered>>
       ELSE /\ outcome' = Running("start")
            /\ pc' = "start"
            /\ entered' = entered + 1

\* WASI.start(inst), up to the call of _start
Start(inst) ==
    /\ pc = "host"
    /\ hostCalls < MaxCalls
    /\ hostCalls' = hostCalls + 1
    /\ guestCalls' = 0
    /\ UNCHANGED <<wasiOptions, wasiImport, lastImport>>
    /\ UNCHANGED <<fsVars, stdVars, memVars>>
    /\ IF isStarted
       THEN /\ outcome' = Threw("start", AlreadyCalled, 0)
            /\ UNCHANGED <<isStarted, instance, pc, entered>>
       ELSE /\ isStarted' = TRUE
            /\ instance' = inst
            /\ IF inst.start = "undefined"
               THEN /\ outcome' = Threw("start", "instance.exports._start is undefined", 0)
                    /\ UNCHANGED <<pc, entered>>
               ELSE IF inst.start # "function"
               THEN /\ outcome' = Threw("start", "instance.exports._start is not a function", 0)
                    /\ UNCHANGED <<pc, entered>>
               ELSE /\ outcome' = Running("start")
                    /\ pc' = "start"
                    /\ entered' = entered + 1

\* WASI.initialize(inst), up to the call of _initialize
Initialize(inst) ==
    /\ pc = "host"
    /\ hostCalls < MaxCalls
    /\ hostCalls' = hostCalls + 1
    /\ guestCalls' = 0
    /\ UNCHANGED <<wasiOptions, wasiImport, lastImport>>
    /\ UNCHANGED <<fsVars, stdVars, memVars>>
    /\ IF isStarted
       THEN /\ outcome' = Threw("initialize", AlreadyCalled, 0)
            /\ UNCHANGED <<isStarted, instance, pc, entered>>
       ELSE /\ isStarted' = TRUE
            /\ instance' = inst
            /\ IF inst.initialize = "undefined"
               THEN /\ outcome' = Threw("initialize", "instance.exports._initialize is undefined", 0)
                    /\ UNCHANGED <<pc, entered>>
               ELSE IF inst.initialize # "function"
               THEN /\ outcome' = Threw("initialize", "instance.exports._initialize is not a function", 0)
                    /\ UNCHANGED <<pc, entered>>
               ELSE /\ outcome' = Running("initialize")
                    /\ pc' = "initialize"
                    /\ entered' = entered + 1

\* the running entry point calls an import; an exception the import throws
\* unwinds the guest and reaches start()'s catch clause, or leaves initialize()
GuestCall(name, arg, bytes) ==
    /\ pc # "host"
    /\ guestCalls < MaxGuestCalls
    /\ guestCalls' = guestCalls + 1
    /\ LET r == callImport(wasiImport, instance, name, arg, bytes) IN
       /\ lastImport' = r
       /\ IF r.how = "threw"
          THEN /\ pc' = "host"
               /\ outcome' = IF pc = "start" THEN startCatch(r)
                              ELSE Threw("initialize", r.error, r.ret)
          ELSE UNCHANGED <<pc, outcome>>
    /\ UNCHANGED <<wasiOptions, wasiImport, isStarted, instance, entered, hostCalls>>
    /\ UNCHANGED <<fsVars, stdVars, memVars>>

\* the entry point returns normally
GuestReturn ==
    /\ pc # "host"
    /\ pc' = "host"
    /\ outcome' = Returned(pc, WASI_ESUCCESS)
    /\ UNCHANGED <<wasiOptions, wasiImport, isStarted, instance, entered, hostCalls,
                   guestCalls, lastImport>>
    /\ UNCHANGED <<fsVars, stdVars, memVars>>

\* the entry point throws some other value (a trap)
GuestTrap(e) ==
    /\ pc # "host"
    /\ pc' = "host"
    /\ outcome' = IF pc = "start"
                   THEN startCatch([error |-> e, ret |-> 0])
                   ELSE Threw("initialize", e, 0)
    /\ UNCHANGED <<wasiOptions, wasiImport, isStarted, instance, entered, hostCalls,
                   guestCalls, lastImport>>
    /\ UNCHANGED <<fsVars, stdVars, memVars>>

DrvNext ==
    \/ \E inst \in Instances : Start(inst)
    \/ \E inst \in Instances : Initialize(inst)
    \/ \E name \in GuestImports, arg \in ExitCodes, bytes \in {<<b>> : b \in RandomBytes} :
           GuestCall(name, arg, bytes)
    \/ GuestReturn
    \/ \E e \in GuestTraps : GuestTrap(e)

(***************************************************************************)
(* Guest memory, and the providers that write scalars and strings to it:   *)
(* useClock and useArgs.  An address a of the memory is the index a + 1 of *)
(* mem.bytes.  memory.grow makes a new ArrayBuffer and detaches the old    *)
(* one; a store through a view of a detached buffer throws.                *)
(***************************************************************************)
\* variant: the view of the earlier call is kept and handed out again
memoryView_captured(m) ==
    [buffer |-> IF memLast.buffer # 0 THEN memLast.buffer ELSE m.buffer]

\* WASI.view(): new DataView(this.instance.exports.memory.buffer)
memoryView(m) == [buffer |-> m.buffer]

\* the n low bytes of value, least significant first
RECURSIVE LittleEndian(_, _)
LittleEndian(value, n) ==
    IF n = 0 THEN <<>>
    ELSE <<value % 256>> \o LittleEndian(value \div 256, n - 1)

\* the stores of DataView and Uint8Array: a TypeError on a detached buffer, a
\* RangeError outside the buffer
SetBytes(m, dataView, offset, bytes) ==
    IF dataView.buffer # m.buffer THEN [mem |-> m, thrown |-> TRUE]
    ELSE IF offset + Len(bytes) > Len(m.bytes) THEN [mem |-> m, thrown |-> TRUE]
    ELSE [mem |-> [m EXCEPT !.bytes =
                      [i \in DOMAIN m.bytes |->
                          IF i > offset /\ i <= offset + Len(bytes)
                          THEN bytes[i - offset] ELSE m.bytes[i]]],
          thrown |-> FALSE]

\* view.setUint32(byteOffset, value, true)
setUint32(m, dataView, byteOffset, value) ==
    SetBytes(m, dataView, byteOffset, LittleEndian(value, 4))

\* view.setBigUint64(byteOffset, value, true)
setBigUint64(m, dataView, byteOffset, value) ==
    SetBytes(m, dataView, byteOffset, LittleEndian(value, 8))

\* what a handler leaves: the memory, the errno, whether it threw instead, and
\* the buffer of the view it obtained, 0 when it obtained none
AbiResult(s, ret, dataView) ==
    [mem |-> s.mem, ret |-> ret, thrown |-> s.thrown, buffer |-> dataView.buffer]
AbiNoView(m, ret) ==
    [mem |-> m, ret |-> ret, thrown |-> FALSE, buffer |-> 0]

\* useClock: clock_res_get(clockId, resolution)
clock_res_get(m, clockId, resolution) ==
    IF clockId \notin {WASI_CLOCK_MONOTONIC, WASI_CLOCK_REALTIME}
    THEN AbiNoView(m, WASI_ENOSYS)
    ELSE LET resolutionValue == IF clockId = WASI_CLOCK_MONOTONIC THEN 5000 ELSE 1000
             dataView == memoryView(m)
         IN AbiResult(setUint32(m, dataView, resolution, resolutionValue),
                      WASI_ESUCCESS, dataView)

\* useClock: clock_time_get(clockId, precision, time) when the clock reads
\* nowMs, a whole number of milliseconds
clock_time_get(m, clockId, nowMs, time) ==
    IF clockId \notin {WASI_CLOCK_MONOTONIC, WASI_CLOCK_REALTIME}
    THEN AbiNoView(m, WASI_ENOSYS)
    ELSE LET dataView == memoryView(m)
             now == nowMs * 1000000
         IN AbiResult(setBigUint64(m, dataView, time, now), WASI_ESUCCESS, dataView)

\* variant: byteLength that counts the code units of the string
byteLength_codeUnits(value) == Len(value)

\* WASIAbi.byteLength(value)
byteLength(value) == Len(Encode(value))

\* WASIAbi.writeString(memory, value, offset): the store and the length
writeString(m, dataView, value, offset) ==
    LET bytes == Encode(value) IN
    [s |-> SetBytes(m, dataView, offset, bytes), length |-> Len(bytes)]

\* for (const arg of args) of args_get
RECURSIVE ArgsGetLoop(_, _, _, _, _)
ArgsGetLoop(m, dataView, rest, offsetOffset, bufferOffset) ==
    IF rest = <<>> THEN [mem |-> m, thrown |-> FALSE]
    ELSE LET p == setUint32(m, dataView, offsetOffset, bufferOffset) IN
         IF p.thrown THEN p
         ELSE LET w == writeString(p.mem, dataView, Append(Head(rest), 0), bufferOffset) IN
              IF w.s.thrown THEN w.s
              ELSE ArgsGetLoop(w.s.mem, dataView, Tail(rest), offsetOffset + 4,
                               bufferOffset + w.length)

\* useArgs: args_get(argv, argvBuf)
args_get(m, argList, argv, argvBuf) ==
    LET dataView == memoryView(m) IN
    AbiResult(ArgsGetLoop(m, dataView, argList, argv, argvBuf), WASI_ESUCCESS, dataView)

\* args.reduce((acc, arg) => acc + abi.byteLength(arg) + 1, 0)
RECURSIVE BufferSize(_)
BufferSize(argList) ==
    IF argList = <<>> THEN 0
    ELSE byteLength(Head(argList)) + 1 + BufferSize(Tail(argList))

\* useArgs: args_sizes_get(argc, argvBufSize)
args_sizes_get(m, argList, argc, argvBufSize) ==
    LET dataView == memoryView(m)
        c == setUint32(m, dataView, argc, Len(argList))
    IN IF c.thrown THEN AbiResult(c, WASI_ESUCCESS, dataView)
       ELSE AbiResult(setUint32(c.mem, dataView, argvBufSize, BufferSize(argList)),
                      WASI_ESUCCESS, dataView)

\* the args the host passes: none, "a", and "a" with U+00E9 "b"
ArgChoices == { <<>>, << <<97>> >>, << <<97>>, <<233, 98>> >> }

\* what the memory holds when the first import is called
FillChoices == {0, 255}

\* the addresses the guest passes
Pointers == {0, 8}

\* the addresses of the string buffer the guest passes to args_get, clear of
\* the pointer array at address 0
ArgvBufs == {8, 10}

ClockIds == {WASI_CLOCK_REALTIME, WASI_CLOCK_MONOTONIC, 2}

NowChoices == {0, 2}

NoMemCall == [op |-> "none", ret |-> 0, thrown |-> FALSE, buffer |-> 0, views |-> <<>>]

MemInitOf(argList, fill) ==
    /\ args = argList
    /\ mem = [buffer |-> 1, bytes |-> [i \in 1..InitialBytes |-> fill]]
    /\ memLast = NoMemCall
    /\ memSteps = 0

\* one import call on the memory, with the result r
MemApply(op, r) ==
    /\ memSteps' = memSteps + 1
    /\ mem' = r.mem
    /\ memLast' = [op |-> op, ret |-> r.ret, thrown |-> r.thrown,
                   buffer |-> r.buffer,
                   views |-> IF r.buffer = 0 THEN memLast.views
                             ELSE Append(memLast.views, r.buffer)]
    /\ UNCHANGED args
    /\ UNCHANGED <<fsVars, drvVars, stdVars>>

ClockResGet(clockId, resolution) ==
    /\ memSteps < MaxMemSteps
    /\ MemApply("clock_res_get", clock_res_get(mem, clockId, resolution))

ClockTimeGet(clockId, nowMs, time) ==
    /\ memSteps < MaxMemSteps
    /\ MemApply("clock_time_get", clock_time_get(mem, clockId, nowMs, time))

ArgsGet(argv, argvBuf) ==
    /\ memSteps < MaxMemSteps
    /\ MemApply("args_get", args_get(mem, args, argv, argvBuf))

ArgsSizesGet(argc, argvBufSize) ==
    /\ memSteps < MaxMemSteps
    /\ MemApply("args_sizes_get", args_sizes_get(mem, args, argc, argvBufSize))

\* the guest grows its memory between two import calls: a new buffer with the
\* old content and a page of zero bytes
MemoryGrow ==
    /\ memSteps < MaxMemSteps
    /\ mem.buffer <= MaxGrows
    /\ memSteps' = memSteps + 1
    /\ mem' = [buffer |-> mem.buffer + 1,
               bytes |-> mem.bytes \o [i \in 1..PageBytes |-> 0]]
    /\ UNCHANGED <<args, memLast>>
    /\ UNCHANGED <<fsVars, drvVars, stdVars>>

MemNext ==
    \/ \E clockId \in ClockIds, resolution \in Pointers :
           ClockResGet(clockId, resolution)
    \/ \E clockId \in ClockIds, nowMs \in NowChoices, time \in Pointers :
           ClockTimeGet(clockId, nowMs, time)
    \/ \E argvBuf \in ArgvBufs : ArgsGet(0, argvBuf)
    \/ \E argc \in Pointers : ArgsSizesGet(argc, argc + 4)
    \/ MemoryGrow

(***************************************************************************)
(* Specifications                                                          *)
(***************************************************************************)
\* the memory-FS provider, under a driver constructed with it as its feature
InitFS ==
    /\ \E h \in HostChoices : FsInitOf(h)
    /\ StdInitOf(DefaultStdio)
    /\ MemInitOf(<<>>, 0)
    /\ DrvInitOf([given |-> TRUE, hasFeatures |-> TRUE,
                  features |-> <<"useMemoryFS">>])

SpecFS == InitFS /\ [][FsNext]_vars

\* the file-content calls of the memory-FS provider
InitIO ==
    /\ FsInitOf([preopens |-> [given |-> FALSE, keys |-> <<>>],
                 adds |-> <<HostFile>>])
    /\ DrvInitOf([given |-> TRUE, hasFeatures |-> TRUE,
                  features |-> <<"useMemoryFS">>])
    /\ StdInitOf(DefaultStdio)
    /\ MemInitOf(<<>>, 0)

SpecIO == InitIO /\ [][IoNext]_vars

(***************************************************************************)
(* The tree calls of the memory-FS provider: entries are made, removed and *)
(* looked up by path through the preopen descriptors, and the preopens are *)
(* asked for their names.                                                  *)
(***************************************************************************)
TreeHosts ==
    { [preopens |-> [given |-> FALSE, keys |-> <<>>], adds |-> <<HostFile>>],
      [preopens |-> [given |-> TRUE, keys |-> << <<"/", "a">> >>],
       adds |-> <<HostFile>>],
      [preopens |-> [given |-> TRUE, keys |-> << <<"/", "e_acute">> >>],
       adds |-> <<>>] }

\* the relative paths the guest passes
TreePaths ==
    { <<"dev">>, <<"a">>, <<"a", "/", "f">>, <<"f">>, <<".">> }

TreeOflags == { 0, WASI_OFLAGS_CREAT }

\* stderr, every descriptor assigned from 3 upward, and the next one
TreeFds == 2..nextFd

\* the path_len values the guest passes to fd_prestat_dir_name
TreeLens == { 1, 2 }

TreeOpen(dirfd, path, oflags) ==
    /\ steps < MaxTreeSteps
    /\ Apply("path_open", path_open(St, dirfd, path, oflags))

TreeCreateDirectory(fd, path) ==
    /\ steps < MaxTreeSteps
    /\ Apply("path_create_directory", path_create_directory(St, fd, path))

TreeUnlinkFile(fd, path) ==
    /\ steps < MaxTreeSteps
    /\ Apply("path_unlink_file", path_unlink_file(St, fd, path))

TreeRemoveDirectory(fd, path) ==
    /\ steps < MaxTreeSteps
    /\ Apply("path_remove_directory", path_remove_directory(St, fd, path))

TreeFilestatGet(fd, path) ==
    /\ steps < MaxTreeSteps
    /\ Apply("path_filestat_get", path_filestat_get(St, fd, path))

TreePrestatGet(fd) ==
    /\ steps < MaxTreeSteps
    /\ Apply("fd_prestat_get", fd_prestat_get(St, fd))

TreePrestatDirName(fd, pathLen) ==
    /\ steps < MaxTreeSteps
    /\ Apply("fd_prestat_dir_name", fd_prestat_dir_name(St, fd, pathLen))

TreeClose(fd) ==
    /\ steps < MaxTreeSteps
    /\ Apply("fd_close", fd_close(St, fd))

TreeNext ==
    \/ \E fd \in TreeFds, path \in TreePaths, oflags \in TreeOflags :
           TreeOpen(fd, path, oflags)
    \/ \E fd \in TreeFds, path \in TreePaths : TreeCreateDirectory(fd, path)
    \/ \E fd \in TreeFds, path \in TreePaths : TreeUnlinkFile(fd, path)
    \/ \E fd \in TreeFds, path \in TreePaths : TreeRemoveDirectory(fd, path)
    \/ \E fd \in TreeFds, path \in TreePaths : TreeFilestatGet(fd, path)
    \/ \E fd \in TreeFds : TreePrestatGet(fd)
    \/ \E fd \in TreeFds, pathLen \in TreeLens : TreePrestatDirName(fd, pathLen)
    \/ \E fd \in TreeFds : TreeClose(fd)

InitTree ==
    /\ \E h \in TreeHosts : FsInitOf(h)
    /\ DrvInitOf([given |-> TRUE, hasFeatures |-> TRUE,
                  features |-> <<"useMemoryFS">>])
    /\ StdInitOf(DefaultStdio)
    /\ MemInitOf(<<>>, 0)

SpecTree == InitTree /\ [][TreeNext]_vars

\* the clock and args providers on the memory of one instance
InitMem ==
    /\ \E argList \in ArgChoices, fill \in FillChoices : MemInitOf(argList, fill)
    /\ FsInitOf([preopens |-> [given |-> FALSE, keys |-> <<>>], adds |-> <<>>])
    /\ DrvInitOf([given |-> TRUE, hasFeatures |-> TRUE,
                  features |-> <<"useAll">>])
    /\ StdInitOf(DefaultStdio)

SpecMem == InitMem /\ [][MemNext]_vars

(***************************************************************************)
(* The stdio descriptors with the host's own stdin, stdout and stderr:     *)
(* fd_read, fd_write and fd_close on 0, 1 and 2, which go to the proxies.  *)
(***************************************************************************)
StdinSources ==
    { <<>>,
      << Str(<<97, 233>>) >>,
      << Buf(<<1>>), Buf(<<2, 3>>), Buf(<<>>), Buf(<<4>>) >> }

StdioLens == { <<1>>, <<2, 1>>, <<0, 2>> }

StdioIovs == { << <<97>> >>, << <<195>> >>, << <<169>> >>,
               << <<97>>, <<195, 169>> >> }

\* the bytes that were stored into the buffers, in buffer order
Stored(bufs) ==
    Concat([i \in DOMAIN bufs |-> SelectSeq(bufs[i], LAMBDA x : x # Hole)])

\* the entry of the stdio node of a descriptor
EntryOf(fd) == nodes[files[fd].node].entry

IsStdio(fd) ==
    /\ fd \in DOMAIN files
    /\ nodes[files[fd].node].type = "character"
    /\ nodes[files[fd].node].kind = "stdio"

StdioStep ==
    /\ steps < MaxStdioSteps
    /\ steps' = steps + 1
    /\ UNCHANGED <<preopens, added, preopenPaths, nodes, root, files, nextFd,
                   last, assigned>>
    /\ UNCHANGED <<drvVars, memVars>>

\* fd_read on a stdio descriptor: file.node.entry.readv(iovViews)
StdioRead(fd, lens) ==
    /\ IsStdio(fd)
    /\ StdioStep
    /\ IF EntryOf(fd) = "stdin"
       THEN LET r == readv(stdio.pending, stdio.source, lens) IN
            /\ stdio' = [stdio EXCEPT !.pending = r.s.pending,
                                      !.source = r.s.source]
            /\ io' = [io EXCEPT !.consumed = @ \o Concat(r.s.produced),
                                !.delivered = @ \o Stored(r.bufs)]
            /\ stdLast' = [NoStdioCall EXCEPT
                              !.op = "fd_read", !.fd = fd, !.lens = lens,
                              !.ret = WASI_ESUCCESS,
                              !.w = "nread" :> r.s.read,
                              !.bufs = r.bufs,
                              !.pendingBefore = stdio.pending.bytes,
                              !.produced = r.s.produced]
       ELSE /\ stdLast' = [NoStdioCall EXCEPT
                              !.op = "fd_read", !.fd = fd, !.lens = lens,
                              !.ret = WASI_ESUCCESS, !.w = "nread" :> 0]
            /\ UNCHANGED <<stdio, io>>

\* fd_write on a stdio descriptor: file.node.entry.writev(iovViews)
StdioWrite(fd, iovs) ==
    /\ IsStdio(fd)
    /\ StdioStep
    /\ IF EntryOf(fd) = "stdin"
       THEN /\ stdLast' = [NoStdioCall EXCEPT
                              !.op = "fd_write", !.fd = fd, !.iovs = iovs,
                              !.ret = WASI_ESUCCESS, !.w = "nwritten" :> 0]
            /\ io' = [io EXCEPT !.calls = Append(@, [fd |-> fd, iovs |-> iovs])]
            /\ UNCHANGED stdio
       ELSE LET r == writev(stdio.outputBuffers, iovs)
                call == [handler |-> EntryOf(fd), arg |-> r.arg]
            IN /\ io' = [io EXCEPT
                            !.calls = Append(@, [fd |-> fd, iovs |-> iovs]),
                            !.handled = Append(@, call)]
               /\ stdLast' = [NoStdioCall EXCEPT
                                 !.op = "fd_write", !.fd = fd, !.iovs = iovs,
                                 !.ret = WASI_ESUCCESS,
                                 !.w = "nwritten" :> r.ret,
                                 !.invoked = <<call>>]
               /\ UNCHANGED stdio

\* fd_close on a stdio descriptor: file.node.entry.close(), an empty method
StdioClose(fd) ==
    /\ IsStdio(fd)
    /\ StdioStep
    /\ stdLast' = [NoStdioCall EXCEPT !.op = "fd_close", !.fd = fd,
                                      !.ret = WASI_ESUCCESS]
    /\ UNCHANGED <<stdio, io>>

StdioNext ==
    \/ \E fd \in 0..2, lens \in StdioLens : StdioRead(fd, lens)
    \/ \E fd \in 0..2, iovs \in StdioIovs : StdioWrite(fd, iovs)
    \/ \E fd \in 0..2 : StdioClose(fd)

InitStdio ==
    /\ \E src \in StdinSources, ob \in BOOLEAN :
          StdInitOf([source |-> src, outputBuffers |-> ob])
    /\ MemInitOf(<<>>, 0)
    /\ FsInitOf([preopens |-> [given |-> FALSE, keys |-> <<>>], adds |-> <<>>])
    /\ DrvInitOf([given |-> TRUE, hasFeatures |-> TRUE,
                  features |-> <<"useMemoryFS">>])

SpecStdio == InitStdio /\ [][StdioNext]_vars

\* the driver, its import table and the guest's entry points, over a
\* memory-FS built with the default preopen
InitDriver ==
    /\ \E o \in OptionChoices : DrvInitOf(o)
    /\ StdInitOf(DefaultStdio)
    /\ MemInitOf(<<>>, 0)
    /\ FsInitOf([preopens |-> [given |-> FALSE, keys |-> <<>>], adds |-> <<>>])

SpecDriver == InitDriver /\ [][DrvNext]_vars

(***************************************************************************)
(* Properties of the driver, checked under SpecDriver                      *)
(***************************************************************************)
\* the names some selected provider supplies
Supplied ==
    IF wasiOptions.given /\ wasiOptions.hasFeatures
    THEN UNION {DOMAIN ProviderImports(wasiOptions.features[i]) :
                    i \in DOMAIN wasiOptions.features}
    ELSE {}

\* C1: whatever the feature list, the empty one included, the import table of
\* the constructed driver binds every name of IMPORT_FUNCTIONS; a call of a
\* name that no selected provider supplies returns ENOSYS (52), writes nothing
\* to guest memory and leaves the driver as it was: the entry point that made
\* the call is still running and the table is the constructed one.
C1_EnosysFill ==
    /\ IMPORT_FUNCTIONS \subseteq DOMAIN wasiImport
    /\ wasiImport = Constructor(wasiOptions)
    /\ \A name \in IMPORT_FUNCTIONS \ Supplied :
          \A arg \in ExitCodes, b \in RandomBytes :
             LET r == callImport(wasiImport, instance, name, arg, <<b>>)
             IN r.how = "returned" /\ r.ret = 52 /\ r.w = <<>>
    /\ (pc # "host" /\ guestCalls > 0 /\ lastImport.name \notin Supplied)
          => /\ lastImport.how = "returned" /\ lastImport.ret = 52
             /\ lastImport.w = <<>>
             /\ outcome = Running(pc) /\ isStarted /\ entered = 1

\* the guest called sched_yield, which no provider supplies, under a feature
\* list that supplies other names, and went on running
C1_Witness ==
    /\ wasiOptions.hasFeatures /\ Len(wasiOptions.features) = 2
    /\ pc = "start" /\ guestCalls = 1
    /\ lastImport.name = "sched_yield" /\ lastImport.ret = 52

\* the function the proc provider binds to proc_exit
ProcExitBound == wasiImport["proc_exit"] = "useProc"

\* C2: start(instance) returns c when the guest calls the proc provider's
\* proc_exit(c) at any point of _start, returns 0 when _start returns, and
\* rethrows unchanged any other value thrown during _start; that proc_exit
\* never returns to the guest.
C2_StartOutcome ==
    [][ /\ (pc = "start" /\ GuestReturn) => outcome' = Returned("start", 0)
        /\ \A c \in ExitCodes, b \in RandomBytes :
              (ProcExitBound /\ GuestCall("proc_exit", c, <<b>>))
                 => /\ lastImport'.how = "threw"
                    /\ pc' = "host"
                    /\ (pc = "start" => outcome' = Returned("start", c))
        /\ \A e \in GuestTraps :
              (pc = "start" /\ GuestTrap(e)) => outcome' = Threw("start", e, 0)
        /\ (pc = "start" /\ lastImport'.how = "threw" /\ guestCalls' = guestCalls + 1
            /\ lastImport'.error # "WASIProcExit")
              => outcome' = Threw("start", lastImport'.error, lastImport'.ret)
      ]_vars

\* start() returned 42 because the second import call of _start was proc_exit(42)
C2_Witness ==
    /\ outcome = Returned("start", 42)
    /\ lastImport.name = "proc_exit" /\ lastImport.how = "threw"
    /\ guestCalls = 2

\* C3: of the start() and initialize() calls made on one driver only the first
\* can invoke a guest entry point; every later call of either method throws
\* and invokes neither _start nor _initialize.
C3_CallableOnce ==
    [][ /\ entered' <= 1
        /\ (hostCalls' = hostCalls + 1 /\ hostCalls >= 1)
              => /\ outcome'.how = "threw"
                 /\ entered' = entered
                 /\ pc' = "host" ]_vars

\* a second call threw after the first one had run an entry point
C3_Witness ==
    /\ hostCalls = 2 /\ entered = 1 /\ pc = "host"
    /\ outcome.how = "threw" /\ outcome.error = AlreadyCalled

(***************************************************************************)
(* Properties of the memory-FS provider, checked under SpecFS              *)
(***************************************************************************)
\* C4: after any sequence of import calls, fd_close on 0, 1 and 2 and
\* path_open included, descriptors 0, 1 and 2 are in the open-file table and
\* bound to the stdin, stdout and stderr proxies of the construction.
C4_StdioBound ==
    \A fd \in 0..2 :
        /\ fd \in DOMAIN files
        /\ files[fd].fd = fd
        /\ nodes[files[fd].node] = StdioNode(StdioProxies[fd + 1])

\* a path_open allocated a descriptor and then fd_close succeeded without
\* removing any entry, so it was given 0, 1 or 2
C4_Witness ==
    /\ steps = 2 /\ last.op = "fd_close" /\ last.ret = WASI_ESUCCESS
    /\ DOMAIN files = assigned
    /\ \E fd \in DOMAIN files : fd >= 3 /\ ~files[fd].isPreopen

\* the directory descriptors and relative paths that name the guest path P
\* without leaving the directory
Names(d, p, P) ==
    /\ d \in DOMAIN files /\ d >= 3
    /\ nodes[files[d].node].type = "dir"
    /\ \A i \in DOMAIN p : p[i] # ".."
    /\ normalizePath(JoinDir(files[d].path, p)) = P

\* C5: for every file added with content C, in every state where the file
\* still holds C, path_open of its path with oflags 0 followed at once by
\* fd_read on the returned descriptor with room for |C| bytes returns the
\* bytes of C.
C5_OpenThenRead ==
    \A i \in DOMAIN added :
        LET P == added[i].path
            C == added[i].content
            n == lookup(FsOf(St), P)
        IN (n # 0 /\ nodes[n].type = "file" /\ nodes[n].content = C)
           => \A d \in DOMAIN files, p \in GuestPaths :
                 Names(d, p, P)
                    => LET o == path_open(St, d, p, 0) IN
                       /\ o.ret = WASI_ESUCCESS /\ ~o.thrown
                       /\ LET r == fd_read(o.st, o.w["opened_fd"], <<Len(C)>>)
                          IN /\ r.ret = WASI_ESUCCESS
                             /\ r.w["nread"] = Len(C)
                             /\ r.data = <<C>>

\* the entries of the open-file table recorded at the guest path g
OpenAt(g) == {e \in DOMAIN files : files[e].path = g}

\* C6: path_open of a (dirfd, path) whose normalized absolute guest path is
\* the recorded path of an entry of the open-file table returns ESUCCESS with
\* that entry's descriptor, adds no entry, leaves the counter and applies no
\* oflag: no EEXIST, no truncation, no creation.
C6_ReopenReturnsExisting ==
    \A d \in DOMAIN files, p \in GuestPaths :
        (d >= 3 /\ nodes[files[d].node].type = "dir")
           => \A e \in OpenAt(normalizePath(JoinDir(files[d].path, p))) :
                 \A o \in OflagChoices :
                    LET r == path_open(St, d, p, o) IN
                    /\ r.ret = WASI_ESUCCESS /\ ~r.thrown
                    /\ r.w = ("opened_fd" :> files[e].fd)
                    /\ r.st = St

\* the last call was a path_open that returned a descriptor older than the
\* newest one, hence one that was already open
C6_Witness ==
    /\ last.op = "path_open" /\ last.ret = WASI_ESUCCESS
    /\ "opened_fd" \in DOMAIN last.w
    /\ last.w["opened_fd"] < nextFd - 1
    /\ last.w["opened_fd"] \in DOMAIN files

\* the step is a path_open that returned ESUCCESS
PathOpenSucceeds ==
    /\ steps' = steps + 1
    /\ last'.op = "path_open" /\ last'.ret = WASI_ESUCCESS /\ ~last'.thrown

\* C7 as stated: every descriptor a successful path_open writes to opened_fd
\* is greater than every descriptor assigned before the call.
C7_Original ==
    [][ PathOpenSucceeds => \A a \in assigned : last'.w["opened_fd"] > a ]_vars

\* C7: every descriptor that a successful path_open allocates to a new entry
\* of the open-file table is greater than every descriptor assigned before
\* the call; a successful path_open that adds no entry, the path being open
\* already, writes a descriptor of the table.
C7_AllocatedAboveAll ==
    [][ PathOpenSucceeds =>
          IF DOMAIN files' # DOMAIN files
          THEN /\ DOMAIN files' = DOMAIN files \cup {last'.w["opened_fd"]}
               /\ \A a \in assigned : last'.w["opened_fd"] > a
          ELSE last'.w["opened_fd"] \in DOMAIN files ]_vars

\* one descriptor was closed and the path_open after it allocated a new one
C7_Witness ==
    /\ steps = 2 /\ last.op = "path_open" /\ last.ret = WASI_ESUCCESS
    /\ assigned \ DOMAIN files # {}
    /\ last.w["opened_fd"] = nextFd - 1
    /\ \A a \in assigned \ {nextFd - 1} : last.w["opened_fd"] > a

\* the (dirfd, path) pairs of a path_open that targets a path that is not
\* open: d is a descriptor of a directory that is still at its path, p stays
\* under it
OpensNew(d, p) ==
    /\ d \in DOMAIN files /\ d >= 3
    /\ nodes[files[d].node].type = "dir"
    /\ lookup(FsOf(St), files[d].path) = files[d].node
    /\ \A i \in DOMAIN p : p[i] # ".."
    /\ OpenAt(normalizePath(JoinDir(files[d].path, p))) = {}

\* C11: a path_open of a path that is not open returns EEXIST when the node
\* exists and OFLAGS_EXCL is set; empties the content of an existing regular
\* file when OFLAGS_TRUNC is set (and OFLAGS_EXCL is not); returns ENOENT when
\* the node does not exist and OFLAGS_CREAT is unset; creates a new empty
\* regular file at the path when the node does not exist and OFLAGS_CREAT is
\* set; and on every success adds one table entry with position 0 whose
\* descriptor it writes to opened_fd.
C11_PathOpenFlags ==
    \A d \in DOMAIN files, p \in GuestPaths, o \in OflagChoices :
        OpensNew(d, p) =>
            LET target == resolve(FsOf(St), files[d].node, p)
                g == normalizePath(JoinDir(files[d].path, p))
                r == path_open(St, d, p, o)
                excl == HasFlag(o, WASI_OFLAGS_EXCL)
                trunc == HasFlag(o, WASI_OFLAGS_TRUNC)
                creat == HasFlag(o, WASI_OFLAGS_CREAT)
            IN /\ (target # 0 /\ excl) => (~r.thrown /\ r.ret = WASI_ERRNO_EXIST)
               /\ (target # 0 /\ nodes[target].type = "file" /\ trunc /\ ~excl)
                     => /\ ~r.thrown /\ r.ret = WASI_ESUCCESS
                        /\ r.st.nodes[target].content = <<>>
               /\ (target = 0 /\ ~creat) => (~r.thrown /\ r.ret = WASI_ERRNO_NOENT)
               /\ (target = 0 /\ creat)
                     => /\ ~r.thrown /\ r.ret = WASI_ESUCCESS
                        /\ LET n == lookup(FsOf(r.st), g) IN
                           /\ n > Len(nodes)
                           /\ r.st.nodes[n] = FileNode(<<>>)
               /\ (~r.thrown /\ r.ret = WASI_ESUCCESS)
                     => LET fd == r.w["opened_fd"] IN
                        /\ fd \notin DOMAIN files
                        /\ DOMAIN r.st.files = DOMAIN files \cup {fd}
                        /\ r.st.files[fd].position = 0
                        /\ r.st.files[fd].path = g
                        /\ \A k \in DOMAIN files : r.st.files[k] = files[k]

\* C8: a descriptor number removed from the open-file table by fd_close is
\* never given to a new entry by a later path_open, and the next-descriptor
\* counter never decreases.
C8_NoReuse ==
    [][ /\ nextFd' >= nextFd
        /\ (DOMAIN files' \ DOMAIN files) \cap assigned = {} ]_vars

\* path_open, fd_close of its descriptor, path_open again: the closed number
\* stays out of the table and the new entry has the next one
C8_Witness ==
    /\ steps = 3 /\ last.op = "path_open" /\ last.ret = WASI_ESUCCESS
    /\ assigned \ DOMAIN files = {nextFd - 2}
    /\ last.w["opened_fd"] = nextFd - 1
    /\ ~files[nextFd - 1].isPreopen

PreopenFds == {fd \in DOMAIN files : files[fd].isPreopen}

C10_DefaultPreopen ==
    (steps = 0 /\ (~preopens.given \/ preopens.keys = <<>>))
       => /\ preopenPaths = << <<"/">> >>
          /\ PreopenFds = {3}
          /\ files[3].preopenPath = <<"/">>

(***************************************************************************)
(* Properties of the file-content calls, checked under SpecIO              *)
(***************************************************************************)
\* the descriptors bound to a regular file
FileFds == {fd \in DOMAIN files : nodes[files[fd].node].type = "file"}

C13_WriteStores ==
    \A fd \in FileFds, iovs \in WriteIovs :
        LET p == files[fd].position
            c == nodes[files[fd].node].content
            L == Len(c)
            B == Concat(iovs)
            N == Len(B)
            r == fd_write(St, fd, iovs)
            c2 == r.st.nodes[files[fd].node].content
        IN /\ ~r.thrown /\ r.ret = WASI_ESUCCESS
           /\ r.w = ("nwritten" :> N)
           /\ Len(c2) = Max(L, p + N)
           /\ \A i \in 1..Len(c2) :
                 c2[i] = IF i > p /\ i <= p + N THEN B[i - p]
                         ELSE IF i <= L THEN c[i] ELSE 0
           /\ r.st.files[fd].position = p + N
           /\ r.st = [St EXCEPT !.files[fd].position = p + N,
                                !.nodes[files[fd].node].content = c2]

\* a write after a seek past the end of an empty file: the content starts
\* with the zero of the hole
C13_Witness ==
    /\ last.op = "fd_write" /\ last.ret = WASI_ESUCCESS
    /\ \E fd \in FileFds :
          LET c == nodes[files[fd].node].content IN
          /\ Len(c) >= 2 /\ c[1] = 0 /\ c[2] # 0
          /\ files[fd].position = Len(c)

\* C14: a successful fd_seek on a descriptor of a regular file sets the
\* position to max(0, base + offset), base being 0 for whence 0, the position
\* for whence 1 and the content length for whence 2, and the fd_tell after it
\* reports that position; with another whence it returns EINVAL, and on a
\* descriptor below 3 it returns EBADF, both without changing a position.
C14_SeekSets ==
    /\ \A fd \in FileFds, offset \in SeekOffsets, whence \in Whences :
          LET p == files[fd].position
              L == Len(nodes[files[fd].node].content)
              base == CASE whence = 0 -> 0 [] whence = 1 -> p [] OTHER -> L
              r == fd_seek(St, fd, offset, whence)
          IN IF whence \in {0, 1, 2}
             THEN /\ ~r.thrown /\ r.ret = WASI_ESUCCESS
                  /\ r.st = [St EXCEPT !.files[fd].position = Max(0, base + offset)]
                  /\ LET t == fd_tell(r.st, fd) IN
                     /\ t.ret = WASI_ESUCCESS
                     /\ t.w = ("offset_ptr" :> Max(0, base + offset))
                     /\ t.st = r.st
             ELSE ~r.thrown /\ r.ret = WASI_ERRNO_INVAL /\ r.st = St
    /\ \A fd \in 0..2, offset \in SeekOffsets, whence \in Whences :
          LET r == fd_seek(St, fd, offset, whence)
          IN ~r.thrown /\ r.ret = WASI_ERRNO_BADF /\ r.st = St /\ r.w = NoWrites

\* the call after the path_open was an fd_seek by -1 that left the position
\* at 0: from position 0 of a file of length 0 or 2 every base - 1 that gives
\* 0 is negative and was clamped
C14_Witness ==
    /\ steps = 2 /\ last.op = "fd_seek" /\ last.ret = WASI_ESUCCESS
    /\ last.w = ("newOffset" :> 0)
    /\ \E fd \in FileFds : files[fd].position = 0

\* C15 as stated: in every reachable state the position of every open-file
\* entry bound to a regular file lies in [0, length of the file's content].
C15_Original ==
    \A fd \in FileFds :
        /\ files[fd].position >= 0
        /\ files[fd].position <= Len(nodes[files[fd].node].content)

\* C15: in every reachable state the position of every open-file entry bound
\* to a regular file is at least 0; it is not bounded by the length of the
\* content, since fd_seek does not clamp at the end of the file.
C15_PositionNonNegative ==
    \A fd \in FileFds : files[fd].position >= 0

\* an fd_seek has put the position of a regular file past the end of it
C15_Witness ==
    /\ last.op = "fd_seek" /\ last.ret = WASI_ESUCCESS
    /\ \E fd \in FileFds :
          /\ files[fd].position = last.w["newOffset"]
          /\ files[fd].position > Len(nodes[files[fd].node].content)

\* C17: for a regular file created with path_open(OFLAGS_CREAT), after an
\* fd_write of the bytes B from position 0, an fd_seek to offset k with whence
\* SET (0 <= k <= |B|) followed by an fd_read of m bytes returns exactly
\* B[k .. min(k+m, |B|)).
C17_WriteSeekRead ==
    \A d \in DOMAIN files, p \in IoPaths :
        LET o == path_open(St, d, p, WASI_OFLAGS_CREAT) IN
        (/\ OpensNew(d, p)
         /\ resolve(FsOf(St), files[d].node, p) = 0
         /\ ~o.thrown /\ o.ret = WASI_ESUCCESS)
        => LET fd == o.w["opened_fd"] IN
           \A iovs \in WriteIovs :
               LET B == Concat(iovs)
                   wr == fd_write(o.st, fd, iovs)
               IN /\ wr.ret = WASI_ESUCCESS
                  /\ \A k \in 0..Len(B), m \in 0..MaxLen :
                        LET sk == fd_seek(wr.st, fd, k, 0)
                            rd == fd_read(sk.st, fd, <<m>>)
                        IN /\ sk.ret = WASI_ESUCCESS
                           /\ ~rd.thrown /\ rd.ret = WASI_ESUCCESS
                           /\ Concat(rd.data) = SubSeq(B, k + 1, Min(k + m, Len(B)))
                           /\ rd.w = ("nread" :> Min(k + m, Len(B)) - k)

\* the four calls in a row: /f created, <<2>> and <<1>> written, a seek to 1
\* and a read of one byte that returned the second byte written
C17_Witness ==
    /\ steps = 4 /\ last.op = "fd_read" /\ last.ret = WASI_ESUCCESS
    /\ last.data = << <<1>> >>
    /\ \E fd \in FileFds :
          /\ files[fd].path = <<"/", "f">>
          /\ nodes[files[fd].node].content = <<2, 1>>
          /\ files[fd].position = 2

\* the descriptors that were in the table and have been closed
ClosedFds == assigned \ DOMAIN files

\* every call that takes a descriptor returns EBADF for fd in the table t
AllBadf(t, fd) ==
    /\ \A lens \in ReadIovs : fd_read(t, fd, lens) = Return(t, WASI_ERRNO_BADF)
    /\ \A iovs \in WriteIovs : fd_write(t, fd, iovs) = Return(t, WASI_ERRNO_BADF)
    /\ \A offset \in SeekOffsets, whence \in Whences :
          fd_seek(t, fd, offset, whence) = Return(t, WASI_ERRNO_BADF)
    /\ fd_tell(t, fd) = Return(t, WASI_ERRNO_BADF)
    /\ fd_fdstat_get(t, fd) = Return(t, WASI_ERRNO_BADF)
    /\ fd_filestat_get(t, fd) = Return(t, WASI_ERRNO_BADF)
    /\ fd_close(t, fd) = Return(t, WASI_ERRNO_BADF)

\* C16: fd_close on a descriptor of 3 or above that is in the table returns
\* ESUCCESS and removes the entry, and as long as the number is out of the
\* table fd_read, fd_write, fd_seek, fd_tell, fd_fdstat_get, fd_filestat_get
\* and fd_close on it return EBADF; fd_close on a number that is not in the
\* table returns EBADF and changes nothing; fd_close on 0, 1 or 2 invokes the
\* close hook of that descriptor's proxy exactly once, returns ESUCCESS and
\* keeps the entry.
C16_CloseRemoves ==
    /\ \A fd \in DOMAIN files \ {0, 1, 2} :
          LET r == fd_close(St, fd) IN
          /\ r = Return([St EXCEPT !.files =
                            [k \in DOMAIN files \ {fd} |-> files[k]]],
                        WASI_ESUCCESS)
          /\ AllBadf(r.st, fd)
    /\ \A fd \in ClosedFds : AllBadf(St, fd)
    /\ \A fd \in AllFds \ DOMAIN files :
          fd_close(St, fd) = Return(St, WASI_ERRNO_BADF)
    /\ \A fd \in {0, 1, 2} :
          LET r == fd_close(St, fd) IN
          /\ fd \in DOMAIN files
          /\ ~r.thrown /\ r.ret = WASI_ESUCCESS
          /\ r.closeCalls = <<nodes[files[fd].node].entry>>
          /\ r.closeCalls[1] = <<"stdin", "stdout", "stderr">>[fd + 1]
          /\ r.st = St

\* the last call was an fd_close that invoked no proxy and returned ESUCCESS:
\* it took a descriptor of 3 or above out of the table
C16_Witness ==
    /\ last.op = "fd_close" /\ last.ret = WASI_ESUCCESS
    /\ last.closeCalls = <<>>
    /\ ClosedFds # {}
    /\ \E fd \in ClosedFds : fd >= 3 /\ fd < nextFd

(***************************************************************************)
(* Properties of the stdio proxies, checked under SpecStdio                *)
(***************************************************************************)
\* the number of bytes the source gives before consume() returns an empty
\* chunk
RECURSIVE AvailableLen(_)
AvailableLen(source) ==
    IF source = <<>> THEN 0
    ELSE LET bytes == ChunkBytes(Head(source)) IN
         IF bytes = <<>> THEN 0 ELSE Len(bytes) + AvailableLen(Tail(source))

\* C18: whatever chunks consume() produces and however the iovecs partition
\* the request, a readv on the readable proxy returns min(sum of the iovec
\* lengths, number of bytes produced and not yet delivered), the bytes
\* produced being the carried-over ones and those of the chunks consume()
\* gives up to its first empty chunk; the bytes produced and not delivered
\* are the carried-over bytes after the call.
C18_ReadvCount ==
    \A lens \in StdioLens :
        LET pend == stdio.pending.bytes
            r == readv(stdio.pending, stdio.source, lens)
        IN /\ r.s.read = Min(Sum(lens), Len(pend) + SumLen(r.s.produced))
           /\ r.s.read = Min(Sum(lens), Len(pend) + AvailableLen(stdio.source))
           /\ Len(Stored(r.bufs)) = r.s.read
           /\ pend \o Concat(r.s.produced) = Stored(r.bufs) \o r.s.pending.bytes

\* an fd_read on descriptor 0 that started with carried-over bytes, delivered
\* some and kept the rest
C18_Witness ==
    /\ stdLast.op = "fd_read" /\ stdLast.fd = 0
    /\ stdLast.pendingBefore # <<>>
    /\ stdLast.w["nread"] >= 1
    /\ stdio.pending.bytes # <<>>

\* C19: across the readv calls on the readable proxy, the bytes stored into
\* the iovecs, in call order and iovec order, followed by the carried-over
\* bytes, are the bytes of the chunks consume() returned in the order it
\* returned them, and every iovec is filled from its offset 0 without a gap.
C19_ReadvPrefix ==
    /\ io.delivered \o stdio.pending.bytes = io.consumed
    /\ \A i \in DOMAIN stdLast.bufs :
          LET buffer == stdLast.bufs[i] IN
          /\ \A j \in DOMAIN buffer :
                buffer[j] # Hole => \A k \in 1..j : buffer[k] # Hole
          /\ (i < Len(stdLast.bufs) /\ \E j \in DOMAIN buffer : buffer[j] = Hole)
                => Stored(SubSeq(stdLast.bufs, i + 1, Len(stdLast.bufs))) = <<>>
    /\ stdLast.op = "fd_read" /\ stdLast.fd = 0
          => stdLast.w = ("nread" :> Len(Stored(stdLast.bufs)))

\* two or more fd_read calls on descriptor 0 have delivered the three bytes
\* of "a" and U+00E9, the last of them starting from the carried-over bytes
C19_Witness ==
    /\ io.delivered = <<97, 195, 169>>
    /\ stdLast.op = "fd_read" /\ stdLast.fd = 0
    /\ stdLast.pendingBefore # <<>>

\* the fd_write calls on descriptor fd, and the invocations of its handler
CallsOn(fd) == SelectSeq(io.calls, LAMBDA c : c.fd = fd)
HandledBy(h) == SelectSeq(io.handled, LAMBDA c : c.handler = h)

\* what the handler of a proxy is to be given for the bytes b
Delivery(b) ==
    IF stdio.outputBuffers THEN Buf(b) ELSE Str(TextDecode(b))

\* C20: every fd_write to descriptor 1 or 2 invokes the handler of that
\* descriptor exactly once, with the concatenation of that call's iovecs (as
\* bytes with outputBuffers, as the decoded text without), and reports the
\* byte count at nwritten; the invocations of a handler are in the order of
\* the calls, and what the handler was given, concatenated, is the
\* concatenation of the bytes written to the descriptor.
C20_HandlerGetsWrites ==
    /\ stdLast.op = "fd_write" /\ stdLast.fd \in {1, 2}
          => /\ stdLast.ret = WASI_ESUCCESS
             /\ stdLast.w = ("nwritten" :> SumLen(stdLast.iovs))
             /\ stdLast.invoked =
                   << [handler |-> <<"stdout", "stderr">>[stdLast.fd],
                       arg |-> Delivery(Concat(stdLast.iovs))] >>
    /\ \A fd \in {1, 2} :
          LET calls == CallsOn(fd)
              given == HandledBy(<<"stdout", "stderr">>[fd])
          IN /\ Len(given) = Len(calls)
             /\ \A i \in DOMAIN calls :
                   given[i].arg = Delivery(Concat(calls[i].iovs))
             /\ Concat([i \in DOMAIN given |-> given[i].arg.units])
                   = Delivery(Concat([i \in DOMAIN calls |->
                                         Concat(calls[i].iovs)])).units

(***************************************************************************)
(* Properties of the handlers' exits and of the tree, checked under SpecFS *)
(***************************************************************************)
\* C22: no memory-FS handler leaves by a host exception, whatever descriptor,
\* path and flags the guest supplies, a path whose intermediate component is
\* missing or is a regular file included: every call returns an errno.
C22_NoHostException == ~last.thrown

(***************************************************************************)
(* Properties of the providers and of the driver, checked under SpecDriver *)
(***************************************************************************)
\* C21: every import function a provider supplies returns a number on every
\* normal return.
C21_NumericErrno == lastImport.how = "returned" => lastImport.numeric

\* C23: start(instance) and initialize(instance) throw when the instance
\* does not export a memory.
C23_MemoryRequired ==
    (hostCalls = 1 /\ instance # NoInstance /\ instance.memory # "memory")
        => outcome.how = "threw" /\ entered = 0

\* C24: start(instance) throws when the instance has no _start export or has
\* an _initialize export, initialize(instance) throws when the instance has a
\* _start export, and no guest entry point is invoked in these cases.
C24_ExportsChecked ==
    hostCalls = 1 /\ instance # NoInstance
        => /\ (outcome.method = "start"
               /\ (instance.start = "undefined" \/ instance.initialize # "undefined"))
                 => outcome.how = "threw" /\ entered = 0
           /\ (outcome.method = "initialize" /\ instance.start # "undefined")
                 => outcome.how = "threw" /\ entered = 0

\* the position of the last provider of the list that supplies the name, 0
\* when none does
LastSupplier(list, imports(_), name) ==
    LET at == {i \in DOMAIN list : name \in DOMAIN imports(list[i])}
    IN IF at = {} THEN 0 ELSE CHOOSE i \in at : \A j \in at : j <= i

UseAllLeaves ==
    <<"useMemoryFS", "useEnviron", "useArgs", "useClock", "useProc", "useRandom">>

\* inside useAll a name is bound to the last leaf that supplies it
UseAllLastWins ==
    \A name \in IMPORT_FUNCTIONS :
        LET i == LastSupplier(UseAllLeaves, LeafImports, name)
        IN IF i = 0 THEN name \notin DOMAIN useAll
           ELSE name \in DOMAIN useAll /\ useAll[name] = UseAllLeaves[i]

\* inside useTrace a name is bound to a wrapper, and the wrapper calls the
\* function of the last traced feature that supplies the name
UseTraceLastWins ==
    \A name \in IMPORT_FUNCTIONS :
        LET i == LastSupplier(TracedFeatures, LeafImports, name)
        IN IF i = 0 THEN name \notin DOMAIN useTrace
           ELSE /\ name \in DOMAIN useTrace
                /\ Original(useTrace[name]) = TracedFeatures[i]
                /\ useTrace[name] # TracedFeatures[i]

\* C25: a name that providers of the features list supply is bound to the
\* function of the last provider in the list that supplies it (so a name of
\* exactly one provider is bound to that provider's function), and a name no
\* provider supplies is not theirs; the same holds of the leaves inside
\* useAll, and inside useTrace for the functions its wrappers call.
C25_LaterProviderWins ==
    /\ LET fs == IF wasiOptions.given /\ wasiOptions.hasFeatures
                 THEN wasiOptions.features ELSE <<>>
       IN \A name \in IMPORT_FUNCTIONS :
              LET i == LastSupplier(fs, ProviderImports, name)
              IN IF i = 0 THEN wasiImport[name] = "ENOSYS"
                 ELSE wasiImport[name] = ProviderImports(fs[i])[name]
    /\ UseAllLastWins
    /\ UseTraceLastWins

\* a features list of two providers that both supply fd_read and of which
\* only the first supplies path_open
C25_Witness ==
    /\ wasiOptions.given /\ wasiOptions.hasFeatures
    /\ wasiOptions.features = <<"useMemoryFS", "useStdio">>
    /\ wasiImport["fd_read"] = "useStdio"
    /\ wasiImport["path_open"] = "useMemoryFS"

(***************************************************************************)
(* Directories and /dev/null, checked under SpecIO                         *)
(***************************************************************************)
\* the descriptors bound to a directory, and those bound to /dev/null
DirFds == {fd \in DOMAIN files : nodes[files[fd].node].type = "dir"}
NullFds ==
    {fd \in DOMAIN files : /\ nodes[files[fd].node].type = "character"
                           /\ nodes[files[fd].node].kind = "devnull"}

\* C30: fd_read and fd_write on a descriptor bound to a directory return
\* EISDIR and change nothing; on a descriptor bound to /dev/null fd_read
\* reports 0 bytes and stores none, and fd_write reports the sum of the
\* iovec lengths at nwritten, and neither changes a content or a position.
C30_DirAndDevNull ==
    /\ \A fd \in DirFds :
          /\ \A lens \in ReadIovs :
                fd_read(St, fd, lens) = Return(St, WASI_ERRNO_ISDIR)
          /\ \A iovs \in WriteIovs :
                fd_write(St, fd, iovs) = Return(St, WASI_ERRNO_ISDIR)
    /\ \A fd \in NullFds :
          /\ \A lens \in ReadIovs :
                fd_read(St, fd, lens) = ReturnW(St, WASI_ESUCCESS, "nread" :> 0)
          /\ \A iovs \in WriteIovs :
                fd_write(St, fd, iovs)
                    = ReturnW(St, WASI_ESUCCESS, "nwritten" :> SumLen(iovs))

\* /dev/null was opened and two bytes were written to it: no regular file is
\* open, and a write to the preopen or to an unknown number gives no count
C30_Witness ==
    /\ steps = 2 /\ NullFds = {4} /\ FileFds = {}
    /\ last.op = "fd_write" /\ last.ret = WASI_ESUCCESS
    /\ last.w = ("nwritten" :> 2)
    /\ nodes[files[4].node].content = <<>> /\ files[4].position = 0

\* C26: after any sequence of guest import calls through the preopen
\* descriptors, the path /dev/null still resolves to a character-device node
\* of kind devnull.
C26_DevNullStays ==
    LET n == lookup(FsOf(St), <<"/", "dev", "/", "null">>) IN
    /\ n # 0
    /\ nodes[n].type = "character"
    /\ nodes[n].kind = "devnull"

\* C27: after any sequence of guest import calls, every registered preopen
\* path still resolves in the file tree to a directory node, and that node is
\* the one the preopen descriptor is bound to.
C27_PreopensResolve ==
    \A i \in DOMAIN preopenPaths :
        LET n == lookup(FsOf(St), preopenPaths[i]) IN
        /\ n # 0
        /\ nodes[n].type = "dir"
        /\ \A fd \in DOMAIN files :
               (files[fd].isPreopen /\ files[fd].preopenPath = preopenPaths[i])
                   => files[fd].node = n

\* the normalized full path the handlers compute for (dirfd, path)
FullPath(dirfd, path) == normalizePath(JoinDir(files[dirfd].path, path))

\* (dirfd, path) names an existing entry of some directory
ExistingEntry(dirfd, path) ==
    /\ dirfd \in DirFds
    /\ FullPath(dirfd, path) # <<"/">>
    /\ lookup(FsOf(St), FullPath(dirfd, path)) # 0

\* r is the result of a removal of (dirfd, path) from the current state: the
\* call returned ESUCCESS, the entry is gone from its parent directory and
\* nothing else has changed
RemovedExactly(r, dirfd, path) ==
    LET parts == Segments(FullPath(dirfd, path))
        name == parts[Len(parts)]
        parent == lookup(FsOf(St), <<"/">> \o Join(DropLast(parts)))
    IN /\ ~r.thrown
       /\ r.ret = WASI_ESUCCESS
       /\ r.w = NoWrites
       /\ r.st.files = files
       /\ r.st.root = root
       /\ r.st.nextFd = nextFd
       /\ DOMAIN r.st.nodes = DOMAIN nodes
       /\ \A n \in DOMAIN nodes :
              IF n = parent
              THEN /\ DOMAIN r.st.nodes[n].entries = DOMAIN nodes[n].entries \ {name}
                   /\ \A k \in DOMAIN r.st.nodes[n].entries :
                          r.st.nodes[n].entries[k] = nodes[n].entries[k]
                   /\ [r.st.nodes[n] EXCEPT !.entries = NoEntries]
                          = [nodes[n] EXCEPT !.entries = NoEntries]
              ELSE r.st.nodes[n] = nodes[n]
       /\ lookup(FsOf(r.st), FullPath(dirfd, path)) = 0
       /\ path_filestat_get(r.st, dirfd, path).ret = WASI_ERRNO_NOENT

\* C28: path_unlink_file and path_remove_directory on the path of an existing
\* entry remove exactly that entry, with its subtree, from its parent
\* directory and return ESUCCESS; a following path_filestat_get of the same
\* (dirfd, path) returns ENOENT and every other entry of the tree is unchanged.
C28_RemovesExactlyTheEntry ==
    \A dirfd \in DOMAIN files, path \in TreePaths :
        ExistingEntry(dirfd, path) =>
            /\ RemovedExactly(path_unlink_file(St, dirfd, path), dirfd, path)
            /\ RemovedExactly(path_remove_directory(St, dirfd, path), dirfd, path)

\* a non-empty directory has just been removed through the root preopen and
\* the rest of the tree is still there
C28_Witness ==
    /\ steps = 1
    /\ last.op = "path_remove_directory"
    /\ last.ret = WASI_ESUCCESS
    /\ added = <<HostFile>>
    /\ preopenPaths = << <<"/">> >>
    /\ lookup(FsOf(St), <<"/", "a">>) = 0
    /\ lookup(FsOf(St), <<"/", "a", "/", "f">>) = 0
    /\ lookup(FsOf(St), <<"/", "dev", "/", "null">>) # 0
    /\ path_filestat_get(St, 3, <<"a">>).ret = WASI_ERRNO_NOENT

\* the bytes of a path string in guest memory: abi.writeString and
\* abi.readString use TextEncoder and TextDecoder, that is UTF-8
PathBytes(s) == Encode(CharCodes(s))

\* C29: for a preopen descriptor, fd_prestat_get writes tag 0 and the length
\* of the preopen path, fd_prestat_dir_name with that length writes exactly
\* the bytes of the preopen path and returns ESUCCESS, and with any other
\* length it returns EINVAL and writes nothing; both return EBADF for the
\* descriptors 0 to 2, for descriptors that are not preopens and for a
\* preopen descriptor that has been closed.
C29_PrestatRoundTrip ==
    \A fd \in 0..nextFd :
        LET g == fd_prestat_get(St, fd) IN
        IF fd \in PreopenFds
        THEN LET pathStr == files[fd].preopenPath IN
             /\ g.ret = WASI_ESUCCESS /\ ~g.thrown /\ g.st = St
             /\ g.w["buf"] = 0
             /\ g.w["buf+4"] \in {StrLen(pathStr), Len(PathBytes(pathStr))}
             /\ \A pathLen \in 0..(MaxLen + 1) :
                    LET n == fd_prestat_dir_name(St, fd, pathLen) IN
                    IF pathLen = g.w["buf+4"]
                    THEN /\ n.ret = WASI_ESUCCESS /\ ~n.thrown /\ n.st = St
                         /\ n.data = << PathBytes(pathStr) >>
                    ELSE n = Return(St, WASI_ERRNO_INVAL)
        ELSE /\ g = Return(St, WASI_ERRNO_BADF)
             /\ \A pathLen \in 0..(MaxLen + 1) :
                    fd_prestat_dir_name(St, fd, pathLen) = Return(St, WASI_ERRNO_BADF)

\* C39: a start() or initialize() call that fails its own validation (the
\* entry export is missing or is not a function) still uses up the single call
\* the driver permits: the driver is marked as started without any entry point
\* having run, and every later start() or initialize() throws the
\* already-called error and enters no entry point, whatever instance it is given.
C39_FailedCallConsumes ==
    [][ /\ (hostCalls' = hostCalls + 1 /\ ~isStarted /\ outcome'.how = "threw")
              => /\ isStarted'
                 /\ entered' = 0
                 /\ outcome'.error # AlreadyCalled
        /\ (hostCalls' = hostCalls + 1 /\ isStarted /\ entered = 0)
              => /\ outcome'.how = "threw"
                 /\ outcome'.error = AlreadyCalled
                 /\ entered' = 0
                 /\ pc' = "host"
                 /\ isStarted' ]_vars

\* the first call failed its validation and the second call threw the
\* already-called error
C39_Witness ==
    /\ hostCalls = 2 /\ entered = 0 /\ isStarted /\ pc = "host"
    /\ outcome.how = "threw" /\ outcome.error = AlreadyCalled
    /\ instance.start # "function"

\* the names only the memory-FS provider supplies
FsOnlyNames ==
    { "path_open", "path_create_directory", "path_unlink_file",
      "path_remove_directory", "path_filestat_get", "fd_seek", "fd_tell",
      "fd_close" }

\* C33: under useAll() without withFileSystem plain stdio is used, so the
\* path_* imports and fd_seek, fd_tell and fd_close are supplied by no provider:
\* the driver binds them to the ENOSYS stub, and fd_write and fd_read to the
\* functions of the stdio provider.
C33_UseAllPlainStdio ==
    (wasiOptions.given /\ wasiOptions.hasFeatures
        /\ wasiOptions.features = <<"useAll">>)
      => /\ \A name \in FsOnlyNames : wasiImport[name] = "ENOSYS"
         /\ wasiImport["fd_write"] = "useStdio"
         /\ wasiImport["fd_read"] = "useStdio"

PathOpenErrors ==
    { WASI_ERRNO_NOTDIR, WASI_ERRNO_EXIST, WASI_ERRNO_INVAL, WASI_ERRNO_NOENT }

\* C38: a path_open that returns an error (ENOTDIR, EEXIST, EINVAL or ENOENT)
\* leaves the open-file table, the next-descriptor counter, every position,
\* the file tree and every file's content unchanged and writes nothing to
\* opened_fd; a path_open that returns something else returns ESUCCESS.
C38_FailedOpenChangesNothing ==
    /\ \A dirfd \in 0..nextFd, path \in IoPaths, oflags \in OflagChoices :
          LET r == path_open(St, dirfd, path, oflags) IN
          (~r.thrown /\ r.ret # WASI_ESUCCESS)
              => /\ r.ret \in PathOpenErrors
                 /\ r.st = St
                 /\ r.w = NoWrites
                 /\ r.data = <<>>
    /\ (last.op = "path_open" /\ ~last.thrown /\ last.ret # WASI_ESUCCESS)
          => last.ret \in PathOpenErrors /\ last.w = NoWrites

\* path_open with OFLAGS_TRUNC on /dev/null has just returned EINVAL
C38_Witness ==
    /\ steps >= 1
    /\ last.op = "path_open"
    /\ last.ret = WASI_ERRNO_INVAL
    /\ ~last.thrown
    /\ path_open(St, 3, <<"dev", "/", "null">>, WASI_OFLAGS_TRUNC).ret = WASI_ERRNO_INVAL
    /\ path_open(St, 3, <<"f">>, WASI_OFLAGS_EXCL).ret
           \in {WASI_ERRNO_EXIST, WASI_ERRNO_NOENT}

\* C40: a readv on the readable proxy delivers the carried-over bytes before
\* any bytes consume() produces in that call, and calls consume() only while
\* iovec space is unfilled after the bytes at hand were used: no call when the
\* carried-over bytes fill the iovecs, and none after consume() has returned
\* an empty value.
C40_CarryOverFirst ==
    (stdLast.op = "fd_read" /\ stdLast.fd = 0) =>
        LET carried == stdLast.pendingBefore
            produced == stdLast.produced
            space == Sum(stdLast.lens)
            got == Stored(stdLast.bufs)
        IN /\ got = SubSeq(carried \o Concat(produced), 1, Len(got))
           /\ Len(got) >= Min(space, Len(carried))
           /\ space <= Len(carried) => produced = <<>>
           /\ \A k \in DOMAIN produced :
                  /\ Len(carried) + SumLen(SubSeq(produced, 1, k - 1)) < space
                  /\ produced[k] = <<>> => k = Len(produced)

\* an fd_read on descriptor 0 whose iovecs were filled from the carried-over
\* bytes alone
C40_Witness ==
    /\ stdLast.op = "fd_read" /\ stdLast.fd = 0
    /\ stdLast.pendingBefore # <<>>
    /\ Sum(stdLast.lens) <= Len(stdLast.pendingBefore)
    /\ stdLast.w["nread"] = Sum(stdLast.lens)
    /\ stdLast.w["nread"] >= 1
    /\ stdLast.produced = <<>>
    /\ stdio.source # <<>>

\* C35: for every directory descriptor d and relative path p, `..` components
\* included, a path_open(d, p) that succeeds binds the descriptor it reports
\* to the node path_filestat_get(d, p) reports on, and the absolute guest
\* path recorded on that open-file entry resolves by lookup to the same node.
C35_OpenMatchesFilestat ==
    \A d \in DirFds, p \in GuestPaths :
        LET r == path_open(St, d, p, 0) IN
        (~r.thrown /\ r.ret = WASI_ESUCCESS) =>
            LET e == r.st.files[r.w["opened_fd"]]
                reported == lookup(FsOf(r.st), JoinDir(files[d].path, p))
            IN /\ path_filestat_get(r.st, d, p).ret = WASI_ESUCCESS
               /\ e.node = reported
               /\ lookup(FsOf(r.st), e.path) = e.node

\* the nodes of the subtree under the node n, n included
RECURSIVE Subtree(_, _)
Subtree(ns, n) ==
    {n} \cup UNION {Subtree(ns, ns[n].entries[k]) : k \in DOMAIN ns[n].entries}

\* the call with result r, made through the descriptor d, has left every node
\* outside the subtree of d's directory as it was and has put every node it
\* made inside that subtree
KeptInside(r, d) ==
    /\ \A n \in DOMAIN nodes \ Subtree(nodes, files[d].node) :
           r.st.nodes[n] = nodes[n]
    /\ \A n \in DOMAIN r.st.nodes \ DOMAIN nodes :
           n \in Subtree(r.st.nodes, files[d].node)

\* C36: no path_open, path_create_directory, path_unlink_file,
\* path_remove_directory or path_filestat_get call made through a preopen
\* descriptor reads, creates, modifies or removes a node outside the subtree
\* of that preopen directory, whatever `..` components the path contains.
C36_Sandboxed ==
    \A d \in PreopenFds, p \in GuestPaths :
        LET inside == Subtree(nodes, files[d].node)
            opened == path_open(St, d, p, 0)
        IN /\ KeptInside(path_open(St, d, p, WASI_OFLAGS_CREAT), d)
           /\ KeptInside(path_open(St, d, p, WASI_OFLAGS_TRUNC), d)
           /\ KeptInside(path_create_directory(St, d, p), d)
           /\ KeptInside(path_unlink_file(St, d, p), d)
           /\ KeptInside(path_remove_directory(St, d, p), d)
           /\ path_filestat_get(St, d, p).ret = WASI_ESUCCESS
                 => lookup(FsOf(St), JoinDir(files[d].path, p)) \in inside
           /\ (~opened.thrown /\ opened.ret = WASI_ESUCCESS)
                 => opened.st.files[opened.w["opened_fd"]].node \in inside

\* the relative paths without a `..` component
PlainPaths == {p \in TreePaths : \A i \in DOMAIN p : p[i] # ".."}

\* the directory descriptors whose recorded path resolves to their node
AttachedDirFds ==
    {d \in DirFds : lookup(FsOf(St), files[d].path) = files[d].node}

\* C37: whenever path_open with OFLAGS_CREAT returns ESUCCESS for (d, p) the
\* file tree has a node at that path afterwards and a path_filestat_get(d, p)
\* that follows returns ESUCCESS, also after the path was removed with
\* path_unlink_file while a descriptor to it was open.
C37_CreateLeavesNode ==
    \A d \in AttachedDirFds, p \in PlainPaths :
        LET r == path_open(St, d, p, WASI_OFLAGS_CREAT) IN
        (~r.thrown /\ r.ret = WASI_ESUCCESS) =>
            /\ lookup(FsOf(r.st), JoinDir(files[d].path, p)) # 0
            /\ path_filestat_get(r.st, d, p).ret = WASI_ESUCCESS

\* the n bytes of the memory m from the address a on
BytesAt(m, a, n) == SubSeq(m.bytes, a + 1, a + n)

\* C31: after a successful clock_res_get the 8 bytes at out_ptr are the 64-bit
\* little-endian encoding of the resolution, 1000 for CLOCK_REALTIME and 5000
\* for CLOCK_MONOTONIC, whatever the 8 bytes held before; for any other clock
\* id clock_res_get and clock_time_get return ENOSYS and write nothing.
C31_ClockResolution ==
    \A clockId \in ClockIds, ptr \in Pointers :
        LET r == clock_res_get(mem, clockId, ptr) IN
        IF clockId \in {WASI_CLOCK_REALTIME, WASI_CLOCK_MONOTONIC}
        THEN (~r.thrown /\ r.ret = WASI_ESUCCESS)
                => BytesAt(r.mem, ptr, 8) =
                      LittleEndian(IF clockId = WASI_CLOCK_REALTIME THEN 1000
                                   ELSE 5000, 8)
        ELSE /\ r = AbiNoView(mem, WASI_ENOSYS)
             /\ \A nowMs \in NowChoices :
                    clock_time_get(mem, clockId, nowMs, ptr) = AbiNoView(mem, WASI_ENOSYS)

\* the bytes of the arguments, each followed by one NUL, back to back
RECURSIVE Packed(_)
Packed(argList) ==
    IF argList = <<>> THEN <<>>
    ELSE Encode(Head(argList)) \o <<0>> \o Packed(Tail(argList))

\* outside the ranges <<a, n>>, the n addresses from a on, the memory m2 holds
\* what mem holds
SameOutside(m2, ranges) ==
    /\ m2.buffer = mem.buffer
    /\ Len(m2.bytes) = Len(mem.bytes)
    /\ \A i \in DOMAIN mem.bytes :
           (\A r \in ranges : i <= r[1] \/ i > r[1] + r[2])
               => m2.bytes[i] = mem.bytes[i]

\* C32: for every args list args_sizes_get reports the number of arguments
\* and the sum of (byte length + 1) over them, and args_get writes exactly
\* that many bytes from argv_buf_ptr on, each argument followed by one NUL,
\* and at argv_ptr + 4*i the address argv_buf_ptr + the sum over j < i of
\* (byte length of argument j + 1).
C32_ArgsLayout ==
    /\ \A argc \in Pointers :
          LET r == args_sizes_get(mem, args, argc, argc + 4) IN
          /\ ~r.thrown /\ r.ret = WASI_ESUCCESS
          /\ BytesAt(r.mem, argc, 4) = LittleEndian(Len(args), 4)
          /\ BytesAt(r.mem, argc + 4, 4) = LittleEndian(Len(Packed(args)), 4)
          /\ SameOutside(r.mem, {<<argc, 8>>})
    /\ \A argvBuf \in ArgvBufs :
          LET r == args_get(mem, args, 0, argvBuf) IN
          /\ ~r.thrown /\ r.ret = WASI_ESUCCESS
          /\ BytesAt(r.mem, argvBuf, Len(Packed(args))) = Packed(args)
          /\ \A i \in DOMAIN args :
                 BytesAt(r.mem, 4 * (i - 1), 4) =
                    LittleEndian(argvBuf + Len(Packed(SubSeq(args, 1, i - 1))), 4)
          /\ SameOutside(r.mem, {<<0, 4 * Len(args)>>,
                                 <<argvBuf, Len(Packed(args))>>})

\* args_get has written "a" and U+00E9 "b" at address 8 and their addresses,
\* 8 and 10, at address 0
C32_Witness ==
    /\ memLast.op = "args_get" /\ ~memLast.thrown
    /\ Len(args) = 2
    /\ BytesAt(mem, 8, 6) = <<97, 0, 195, 169, 98, 0>>
    /\ BytesAt(mem, 0, 8) = <<8, 0, 0, 0, 10, 0, 0, 0>>

\* C34: an import handler that reads or writes guest memory obtains its view
\* during that call from the buffer that backs the instance's memory at that
\* time and never uses a view of an earlier call, so a call made after the
\* guest has grown its memory operates on the new buffer and does not fail on
\* the detached one.
C34_FreshView ==
    [][ memLast'.views # memLast.views
          => /\ memLast'.buffer = mem.buffer
             /\ mem'.buffer = mem.buffer
             /\ memLast'.views = Append(memLast.views, mem.buffer)
             /\ ~memLast'.thrown ]_vars

\* a handler wrote through a view of the first buffer, the guest grew its
\* memory, and the next handler wrote through a view of the new buffer
C34_Witness ==
    /\ mem.buffer = 2
    /\ memLast.views = <<1, 2>>
    /\ memLast.op = "clock_res_get"
    /\ ~memLast.thrown /\ memLast.ret = WASI_ESUCCESS
    /\ \E ptr \in Pointers : BytesAt(mem, ptr, 4) \in {LittleEndian(1000, 4),
                                                       LittleEndian(5000, 4)}

====
